---- MODULE Spec2Model ----
(***************************************************************************)
(* A model of the TiDB optimizer calibration tool: the selectivity shaper  *)
(* (scenarios.go), the query executor with its coprocessor-cache retry,    *)
(* the tabular plan parser and the plan classifier (tidb client), and the  *)
(* scenario generator.                                                     *)
(*                                                                         *)
(* A table is modelled by the multiset of the b values of its rows: no     *)
(* statement of the program reads or writes a row by its id or filler      *)
(* column, every WHERE clause and every SET clause names b only.           *)
(***************************************************************************)
EXTENDS Integers, Sequences, FiniteSets, TLC

\* ------------------------------------------------------------------ bounds
\* Largest table size and largest requested row count of the shaper.
MaxRows == 4
\* Longest list of selectivities handed to the shaper.
MaxSpecs == 2

\* ------------------------------------------------- program constants, scaled
\* batchSize of adjustSelectivities (50000 in the source), scaled down.
batchSize == 2
\* batchSize of generateRandomData (100000 in the source), scaled down.
genBatchSize == 2
\* The range of rand.Intn(1000000) and FLOOR(RAND() * 1000000), scaled down.
RandRange == 3
\* The value the executor parks rows at while it invalidates the cache.
Sentinel == -313

\* ------------------------------------------------------------- table values
Vals == {Sentinel} \cup (0 .. RandRange)

Min(a, b) == IF a < b THEN a ELSE b

RECURSIVE SumOver(_, _)
SumOver(t, S) ==
  IF S = {} THEN 0
  ELSE LET v == CHOOSE x \in S : TRUE IN t[v] + SumOver(t, S \ {v})

EmptyTable == [v \in Vals |-> 0]

\* SELECT COUNT(*) FROM t
CountAll(t) == SumOver(t, Vals)

\* SELECT COUNT(*) FROM t WHERE b = v
CountEq(t, v) == IF v \in Vals THEN t[v] ELSE 0

\* SELECT COUNT(*) FROM t WHERE b <= 0
CountNonPositive(t) == SumOver(t, {v \in Vals : v <= 0})

\* The rows an UPDATE ... WHERE b IN S [ORDER BY RAND()] LIMIT k may take: any
\* min(k, matching) of the matching rows.
Picks(t, S, k) ==
  LET n == Min(k, SumOver(t, S \cap Vals))
  IN  {p \in [Vals -> 0 .. n] :
         /\ \A v \in Vals : p[v] <= (IF v \in S THEN t[v] ELSE 0)
         /\ SumOver(p, Vals) = n}

\* A faulty variant of UpdateRows: the picked rows are removed and not written back.
UpdateRowsLosing(t, p, b) == [v \in Vals |-> t[v] - p[v]]

\* UPDATE t SET b = <b> ... on the picked rows p.
UpdateRows(t, p, b) ==
  [v \in Vals |-> t[v] - p[v] + (IF v = b THEN SumOver(p, Vals) ELSE 0)]

\* INSERT of the rows p.
InsertRows(t, p) == [v \in Vals |-> t[v] + p[v]]

\* The rows one INSERT ... SELECT FLOOR(RAND() * 1000000) ... LIMIT k adds.
RandomRows(k) ==
  {p \in [Vals -> 0 .. k] :
     /\ \A v \in Vals : v \notin (0 .. RandRange - 1) => p[v] = 0
     /\ SumOver(p, Vals) = k}

\* ------------------------------------------------------------ selectivities
\* A selectivity is the float64 num/den: a fraction below 1, or a row count.
SelChoices ==
  { [num |-> 1, den |-> 2], [num |-> 1, den |-> 1], [num |-> 2, den |-> 1] }

\* GetNumRows: int() truncates.
GetNumRows(rows, sel) ==
  IF sel.num < sel.den THEN (rows * sel.num) \div sel.den
  ELSE sel.num \div sel.den

\* rowsForSelectivities as adjustSelectivities builds it.
RowsFor(rows, sels) == [k \in 1 .. Len(sels) |-> GetNumRows(rows, sels[k])]

RECURSIVE SumSeq(_)
SumSeq(s) == IF s = <<>> THEN 0 ELSE Head(s) + SumSeq(Tail(s))

\* The outcomes of getRandomNotInList(l): the inner loop compares the indices
\* of l with ret and its continue leaves only the inner loop, so every draw of
\* rand.Intn(1000000) + 1 is returned.
getRandomNotInList(l) == 1 .. RandRange

SeqsUpTo(S, n) == UNION {[1 .. k -> S] : k \in 0 .. n}

BagsOfSize(S, n) ==
  {t \in [Vals -> 0 .. n] :
     /\ \A v \in Vals : v \notin S => t[v] = 0
     /\ SumOver(t, Vals) = n}

\* ---------------------------------------------------------------- strings
\* A string the program searches in is a sequence of characters.
UpperCase ==
  << "A", "B", "C", "D", "E", "F", "G", "H", "I", "J", "K", "L", "M",
     "N", "O", "P", "Q", "R", "S", "T", "U", "V", "W", "X", "Y", "Z" >>
LowerCase ==
  << "a", "b", "c", "d", "e", "f", "g", "h", "i", "j", "k", "l", "m",
     "n", "o", "p", "q", "r", "s", "t", "u", "v", "w", "x", "y", "z" >>

ToLowerChar(c) ==
  IF \E k \in 1 .. 26 : UpperCase[k] = c
  THEN LowerCase[CHOOSE k \in 1 .. 26 : UpperCase[k] = c]
  ELSE c

\* strings.ToLower
ToLower(str) == [k \in 1 .. Len(str) |-> ToLowerChar(str[k])]

\* strings.Contains
Contains(str, sub) ==
  \E k \in 1 .. (Len(str) - Len(sub) + 1) :
    SubSeq(str, k, k + Len(sub) - 1) = sub

strIndex == << "i", "n", "d", "e", "x" >>
strTable == << "t", "a", "b", "l", "e" >>
strTableReader == strTable \o << "r", "e", "a", "d", "e", "r" >>

\* Operator ids as TiDB prints them, and one that names both an index and a
\* table.
idIndexLookUp ==
  << "I", "n", "d", "e", "x", "L", "o", "o", "k", "U", "p", "_", "1", "0" >>
idTableReader ==
  << "T", "a", "b", "l", "e", "R", "e", "a", "d", "e", "r", "_", "7" >>
idSelection == << "S", "e", "l", "e", "c", "t", "i", "o", "n", "_", "6" >>
idTableFullScan ==
  << "T", "a", "b", "l", "e", "F", "u", "l", "l", "S", "c", "a", "n", "_", "5" >>
idIndexRangeScan ==
  << "I", "n", "d", "e", "x", "R", "a", "n", "g", "e", "S", "c", "a", "n",
     "_", "8" >>
idTableIndexScan ==
  << "T", "a", "b", "l", "e", "I", "n", "d", "e", "x", "S", "c", "a", "n",
     "_", "9" >>

\* ------------------------------------------------------------ ExecutionPlan
PlanTypes == {"index_lookup", "table_scan", "unknown"}

\* The execution info column is a list of "key: value" items.
InfoTime == [key |-> "time", val |-> "1.2ms"]
InfoNoCache == [key |-> "copr_cache", val |-> "disabled"]
InfoHit(ratio) == [key |-> "copr_cache_hit_ratio", val |-> ratio]

\* The values the pattern [01]\.[0-9][0-9] accepts, among those modelled.
RatioPattern == {"0.00", "0.50", "1.00"}

\* regexp `copr_cache_hit_ratio: ([01]\.[0-9][0-9])`, FindAllStringSubmatch:
\* the captured groups, in order.
RECURSIVE FindAllHitRatios(_)
FindAllHitRatios(info) ==
  IF info = <<>> THEN <<>>
  ELSE (IF Head(info).key = "copr_cache_hit_ratio"
           /\ Head(info).val \in RatioPattern
        THEN << Head(info).val >> ELSE <<>>)
       \o FindAllHitRatios(Tail(info))

\* &ExecutionPlan{...} of getPlanFromSimpleExplain: the other fields keep
\* their zero values. A plan is the chain of its nodes, Next being the node
\* that follows.
Node5(id, estRows, task, accessObject, operatorInfo) ==
  [ ID |-> id, Task |-> task, EstRows |-> estRows, ActRows |-> 0,
    AccessObject |-> accessObject, OperatorInfo |-> operatorInfo,
    ExecutionInfo |-> <<>>, Memory |-> "", Disk |-> "" ]

\* &ExecutionPlan{...} of getPlanFromExplainAnalyze.
Node9(id, estRows, actRows, task, accessObject, execInfo, opInfo, mem, disk) ==
  [ ID |-> id, Task |-> task, EstRows |-> estRows, ActRows |-> actRows,
    AccessObject |-> accessObject, OperatorInfo |-> opInfo,
    ExecutionInfo |-> execInfo, Memory |-> mem, Disk |-> disk ]

\* getPlanFromSimpleExplain: rows.Scan runs once, before the loop, on the
\* first row; the loop appends one node per row from the scanned variables
\* and only advances the cursor.
getPlanFromSimpleExplain(rows) ==
  LET r == rows[1]
  IN  [k \in 1 .. Len(rows) |-> Node5(r[1], r[2], r[3], r[4], r[5])]

\* A float64 is held in tenths; int64(f) drops the fraction.
Tenths == 10
Int64(f) == f \div Tenths

\* getPlanFromExplainAnalyze: rows.Scan runs inside the loop, once per row.
getPlanFromExplainAnalyze(rows) ==
  [k \in 1 .. Len(rows) |->
     LET r == rows[k]
     IN  Node9(r[1], r[2], Int64(r[3]), r[4], r[5], r[6], r[7], r[8], r[9])]

\* The parser's two results: a nil plan is the empty chain.
ParseError == [plan |-> <<>>, err |-> "error"]
Parsed(p) == [plan |-> p, err |-> "nil"]

\* A faulty variant of parseTabularExecutionPlan: an unsupported format or an empty
\* response yields an empty default plan instead of an error.
parseTabularDefaulting(resp) ==
  IF Len(resp.rows) = 0 THEN Parsed(<< Node5(<<>>, 0, "", "", "") >>)
  ELSE IF resp.columns = 5 THEN Parsed(getPlanFromSimpleExplain(resp.rows))
  ELSE IF resp.columns = 9 THEN Parsed(getPlanFromExplainAnalyze(resp.rows))
  ELSE Parsed(<< Node5(<<>>, 0, "", "", "") >>)

\* parseTabularExecutionPlan
parseTabularExecutionPlan(resp) ==
  IF Len(resp.rows) = 0 THEN ParseError
  ELSE IF resp.columns = 5 THEN Parsed(getPlanFromSimpleExplain(resp.rows))
  ELSE IF resp.columns = 9 THEN Parsed(getPlanFromExplainAnalyze(resp.rows))
  ELSE ParseError

\* A faulty variant of OwnType: an id naming an index is an index lookup even when it
\* also names a table.
OwnTypeIndexOnly(id) ==
  IF Contains(ToLower(id), strIndex) THEN "index_lookup"
  ELSE IF Contains(ToLower(id), strTableReader) THEN "table_scan"
  ELSE "unknown"

\* The classification of one node by its id alone.
OwnType(id) ==
  IF Contains(ToLower(id), strIndex) /\ ~Contains(ToLower(id), strTable)
  THEN "index_lookup"
  ELSE IF Contains(ToLower(id), strTableReader) THEN "table_scan"
  ELSE "unknown"

\* determinePlanType on a chain (the tabular client): chain is the node and
\* its successors; a nil plan is the empty chain. The loop over plan.Next
\* calls determinePlanType on every successor in turn.
RECURSIVE determinePlanType(_)
RECURSIVE FirstKnownSuccessor(_, _)
FirstKnownSuccessor(chain, k) ==
  IF k > Len(chain) THEN "unknown"
  ELSE LET t == determinePlanType(SubSeq(chain, k, Len(chain)))
       IN  IF t # "unknown" THEN t ELSE FirstKnownSuccessor(chain, k + 1)

determinePlanType(chain) ==
  IF chain = <<>> THEN "unknown"
  ELSE IF OwnType(chain[1].ID) # "unknown" THEN OwnType(chain[1].ID)
  ELSE FirstKnownSuccessor(chain, 2)

\* determinePlanType on a tree (the JSON client): the children in order.
\* A pointer to a node is << node >>, the nil pointer is << >>.
RECURSIVE determinePlanTypeTree(_)
RECURSIVE FirstKnownChild(_, _)
FirstKnownChild(children, k) ==
  IF k > Len(children) THEN "unknown"
  ELSE LET t == determinePlanTypeTree(<< children[k] >>)
       IN  IF t # "unknown" THEN t ELSE FirstKnownChild(children, k + 1)

determinePlanTypeTree(ptr) ==
  IF ptr = <<>> THEN "unknown"
  ELSE IF OwnType(ptr[1].ID) # "unknown" THEN OwnType(ptr[1].ID)
  ELSE FirstKnownChild(ptr[1].Children, 1)

\* A faulty variant of isCoprCacheUsed: only the first node of the plan is examined.
RECURSIVE isCoprCacheUsedFirstOnly(_)
isCoprCacheUsedFirstOnly(chain) ==
  IF chain = <<>> THEN FALSE
  ELSE \E k \in DOMAIN FindAllHitRatios(chain[1].ExecutionInfo) :
         FindAllHitRatios(chain[1].ExecutionInfo)[k] # "0.00"

\* isCoprCacheUsed
RECURSIVE isCoprCacheUsed(_)
isCoprCacheUsed(chain) ==
  IF chain = <<>> THEN FALSE
  ELSE IF \E k \in DOMAIN FindAllHitRatios(chain[1].ExecutionInfo) :
            FindAllHitRatios(chain[1].ExecutionInfo)[k] # "0.00"
       THEN TRUE
       ELSE isCoprCacheUsed(Tail(chain))

\* ------------------------------------------------------------------- state
VARIABLES
  tableExists,          \* whether the table exists in the database
  table,                \* the table's rows, by b value
  rowCount,             \* generateTestData's rowCount
  selectivities,        \* generateTestData's selectivities
  pc,                   \* the statement generateTestData is at
  recreateTable,        \* generateTestData's recreateTable
  currentRowCount,      \* generateTestData's currentRowCount
  remainingRows,        \* generateRandomData's remainingRows
  currentBatchSize,     \* generateRandomData's currentBatchSize
  rowsForSelectivities, \* adjustSelectivities' rowsForSelectivities
  idx,                  \* adjustSelectivities' loop index i (1-based)
  actualRowCount,       \* adjustSelectivities' actualRowCount
  err,                  \* "none" while running, then "nil" or "error"
  stmts,                \* the kinds of statement issued against the table
  shapedAtStart,        \* history: the table was already shaped before the call
  changed,              \* history: some statement has changed a row or the table
  entryRows,            \* history: rows on entry to adjustSelectivities, or -1
  \* the plan parser and the plan classifier
  response,             \* the rows and columns a plan query returned
  plan,                 \* the parsed plan: a chain of nodes, empty for nil
  planErr,              \* "none" before the parser ran, then "nil" or "error"
  tree,                 \* a plan of the JSON client: a pointer to a tree
  planType,             \* determinePlanType's result, "" before it ran
  ppc,                  \* "start", "parsed" or "classified"
  \* executeQueryWithMetrics
  testScenario,         \* the scenario being executed
  retry,                \* executeQueryWithMetrics' retry parameter
  epc,                  \* the statement executeQueryWithMetrics is at
  bVal,                 \* b of the first row the query returned
  rowsCounted,          \* executeQueryWithMetrics' rowCount
  res,                  \* a pointer to the result returned
  execErr,              \* "none" while running, then "nil" or "error"
  log,                  \* history: executions, fetched plans, invalidations
  \* the scenario generator
  rowCounts,            \* the generator's rowCounts
  repetitions,          \* the generator's repetitions
  scenarios,            \* the generated list
  seed,                 \* the state of the random source
  gpc,                  \* "start", "generated" or "shuffled"
  \* the report of a run (main.go)
  results,              \* the TestResult values the execution loop collected
  report,               \* what outputResultsTable prints: the groups and the detail rows
  apc,                  \* "idle", "collected", "sorted" or "reported"
  \* the process (main.go, TestRunner)
  args,                 \* the four flags as given on the command line
  mpc,                  \* "idle", "start", "generate", "loop" or "exited"
  logLevel,             \* the level setupLogging chose
  exitStatus,           \* the exit status, once mpc = "exited"
  connectErr,           \* "none" before Connect, then "nil" or the step that failed
  pos,                  \* the position of the execution loop in scenarios
  tableCache,           \* the table names TestRunner.tableCache holds as true
  attempts              \* history: one entry per call of RunScenarioWithActualPlan

shapeVars ==
  << tableExists, table, rowCount, selectivities, pc, recreateTable,
     currentRowCount, remainingRows, currentBatchSize, rowsForSelectivities,
     idx, actualRowCount, err, stmts, shapedAtStart, changed, entryRows >>

\* Shaper variables other than the table and the selectivities.
shapeCtl ==
  << rowCount, pc, recreateTable, currentRowCount, remainingRows,
     currentBatchSize, rowsForSelectivities, idx, actualRowCount, err, stmts,
     shapedAtStart, changed, entryRows >>

planVars == << response, plan, planErr, tree, planType, ppc >>

execVars == << testScenario, retry, epc, bVal, rowsCounted, res, execErr, log >>

genVars == << rowCounts, repetitions, scenarios, seed, gpc >>

aggVars == << results, report, apc >>

runVars ==
  << args, mpc, logLevel, exitStatus, connectErr, pos, tableCache, attempts >>

vars == << shapeVars, planVars, execVars, genVars, aggVars, runVars >>

EmptyResponse == [columns |-> 0, rows |-> <<>>]

\* The values a component's variables hold while another component runs.
ShapeCtlIdle ==
  /\ rowCount = 0
  /\ pc = "idle"
  /\ recreateTable = FALSE
  /\ currentRowCount = 0
  /\ remainingRows = 0
  /\ currentBatchSize = 0
  /\ rowsForSelectivities = <<>>
  /\ idx = 0
  /\ actualRowCount = 0
  /\ err = "none"
  /\ stmts = {}
  /\ shapedAtStart = FALSE
  /\ changed = FALSE
  /\ entryRows = -1

PlanIdle ==
  /\ response = EmptyResponse
  /\ plan = <<>>
  /\ planErr = "none"
  /\ tree = <<>>
  /\ planType = ""
  /\ ppc = "idle"

ExecIdle ==
  /\ testScenario = [Variant |-> "", ExplainOnly |-> FALSE, SearchValue |-> 0]
  /\ retry = FALSE
  /\ epc = "idle"
  /\ bVal = 0
  /\ rowsCounted = 0
  /\ res = <<>>
  /\ execErr = "none"
  /\ log = <<>>

GenIdle ==
  /\ rowCounts = <<>>
  /\ repetitions = 0
  /\ scenarios = <<>>
  /\ seed = 0
  /\ gpc = "idle"

AggIdle ==
  /\ results = <<>>
  /\ report = [groups |-> <<>>, detail |-> <<>>]
  /\ apc = "idle"

RunIdle ==
  /\ args = [logLevel |-> "", rows |-> <<>>, selectivity |-> <<>>,
             repetitions |-> 0]
  /\ mpc = "idle"
  /\ logLevel = ""
  /\ exitStatus = 0
  /\ connectErr = "none"
  /\ pos = 0
  /\ tableCache = {}
  /\ attempts = <<>>


\* Statements that change the table or its rows.
\* The three UPDATE statements of adjustSelectivities are told apart.
Updates == {"UPDATE normalize", "UPDATE decrease", "UPDATE increase"}
Mutating == {"DROP", "CREATE", "TRUNCATE", "INSERT"} \cup Updates
RowChanging == {"DROP", "TRUNCATE", "INSERT"} \cup Updates

\* The table holds rows rows, none with a non-positive b, and for every
\* selectivity exactly its cardinality of rows at the target value.
Shaped(t, rows, sels) ==
  /\ CountAll(t) = rows
  /\ CountNonPositive(t) = 0
  /\ \A k \in 1 .. Len(sels) :
       CountEq(t, GetNumRows(rows, sels[k])) = GetNumRows(rows, sels[k])

\* ---------------------------------------------------------- generateTestData
ShapeInit ==
  /\ rowCount \in 1 .. MaxRows
  /\ selectivities \in SeqsUpTo(SelChoices, MaxSpecs)
  /\ tableExists \in BOOLEAN
  /\ table \in UNION {BagsOfSize(0 .. RandRange, n) : n \in 0 .. MaxRows}
  /\ tableExists = FALSE => table = EmptyTable
  /\ pc = "start"
  /\ recreateTable = FALSE
  /\ currentRowCount = 0
  /\ remainingRows = 0
  /\ currentBatchSize = 0
  /\ rowsForSelectivities = <<>>
  /\ idx = 0
  /\ actualRowCount = 0
  /\ err = "none"
  /\ stmts = {}
  /\ shapedAtStart = (tableExists /\ Shaped(table, rowCount, selectivities))
  /\ changed = FALSE
  /\ entryRows = -1
  /\ PlanIdle
  /\ ExecIdle
  /\ GenIdle
  /\ AggIdle
  /\ RunIdle

\* The history variable changed follows the table.
NoteChange ==
  changed' = (changed \/ table' # table \/ tableExists' # tableExists)

\* return fmt.Errorf(...)
ReturnError ==
  /\ pc' = "done"
  /\ err' = "error"

\* A faulty variant of NeedsData: regenerates unless the table holds more rows.
NeedsDataOffByOne(current, wanted) == current <= wanted

\* if currentRowCount != rowCount
NeedsData(current, wanted) == current # wanted

\* checkTableStatus: the count fails when the table is absent (or the query
\* fails), and generateTestData then recreates the table.
CheckTableStatus ==
  /\ pc = "start"
  /\ \E failed \in BOOLEAN :
       IF tableExists /\ ~failed
       THEN /\ currentRowCount' = CountAll(table)
            /\ recreateTable' = FALSE
            /\ pc' = IF NeedsData(CountAll(table), rowCount)
                     THEN "truncate" ELSE "adjust"
       ELSE /\ currentRowCount' = 0
            /\ recreateTable' = TRUE
            /\ pc' = "drop"
  /\ UNCHANGED << tableExists, table, rowCount, selectivities, remainingRows,
                  currentBatchSize, rowsForSelectivities, idx, actualRowCount,
                  err, stmts, shapedAtStart, changed, entryRows >>
  /\ UNCHANGED << planVars, execVars, genVars, aggVars, runVars >>

\* DROP TABLE IF EXISTS
DropTable ==
  /\ pc = "drop"
  /\ stmts' = stmts \cup {"DROP"}
  /\ \E failed \in BOOLEAN :
       IF ~failed
       THEN /\ tableExists' = FALSE
            /\ table' = EmptyTable
            /\ pc' = "create"
            /\ err' = err
       ELSE /\ ReturnError
            /\ UNCHANGED << tableExists, table >>
  /\ UNCHANGED << rowCount, selectivities, recreateTable, currentRowCount,
                  remainingRows, currentBatchSize, rowsForSelectivities, idx,
                  actualRowCount, shapedAtStart, entryRows >>
  /\ NoteChange
  /\ UNCHANGED << planVars, execVars, genVars, aggVars, runVars >>

\* CREATE TABLE
CreateTable ==
  /\ pc = "create"
  /\ stmts' = stmts \cup {"CREATE"}
  /\ \E failed \in BOOLEAN :
       IF ~failed
       THEN /\ tableExists' = TRUE
            /\ table' = EmptyTable
            /\ pc' = IF NeedsData(currentRowCount, rowCount)
                     THEN "truncate" ELSE "adjust"
            /\ err' = err
       ELSE /\ ReturnError
            /\ UNCHANGED << tableExists, table >>
  /\ UNCHANGED << rowCount, selectivities, recreateTable, currentRowCount,
                  remainingRows, currentBatchSize, rowsForSelectivities, idx,
                  actualRowCount, shapedAtStart, entryRows >>
  /\ NoteChange
  /\ UNCHANGED << planVars, execVars, genVars, aggVars, runVars >>

\* TRUNCATE TABLE, then generateRandomData's temporary number table.
TruncateTable ==
  /\ pc = "truncate"
  /\ stmts' = stmts \cup {"TRUNCATE"}
  /\ \E failed \in BOOLEAN :
       IF ~failed
       THEN /\ table' = EmptyTable
            /\ remainingRows' = rowCount
            /\ pc' = "gen_count"
            /\ err' = err
       ELSE /\ ReturnError
            /\ UNCHANGED << table, remainingRows >>
  /\ UNCHANGED << tableExists, rowCount, selectivities, recreateTable,
                  currentRowCount, currentBatchSize, rowsForSelectivities, idx,
                  actualRowCount, shapedAtStart, entryRows >>
  /\ NoteChange
  /\ UNCHANGED << planVars, execVars, genVars, aggVars, runVars >>

\* A faulty variant of NextBatchSize: every batch is a full one.
NextBatchSizeFull(remaining, current, wanted) == genBatchSize

\* currentBatchSize := batchSize, cut to rowCount - currentRowCount once
\* remainingRows <= batchSize.
NextBatchSize(remaining, current, wanted) ==
  IF remaining <= genBatchSize
  THEN Min(genBatchSize, wanted - current)
  ELSE genBatchSize

\* generateRandomData: the head of the insert loop.
GenCount ==
  /\ pc = "gen_count"
  /\ \E failed \in BOOLEAN :
       IF failed THEN ReturnError /\ UNCHANGED currentBatchSize
       ELSE LET current == CountAll(table) IN
            /\ err' = err
            /\ IF current >= rowCount
               THEN pc' = "gen_validate" /\ UNCHANGED currentBatchSize
               ELSE /\ pc' = "gen_insert"
                    /\ currentBatchSize' =
                         NextBatchSize(remainingRows, current, rowCount)
  /\ UNCHANGED << tableExists, table, rowCount, selectivities, recreateTable,
                  currentRowCount, remainingRows, rowsForSelectivities, idx,
                  actualRowCount, stmts, shapedAtStart, changed, entryRows >>
  /\ UNCHANGED << planVars, execVars, genVars, aggVars, runVars >>

\* generateRandomData: INSERT IGNORE ... LIMIT currentBatchSize
GenInsert ==
  /\ pc = "gen_insert"
  /\ stmts' = stmts \cup {"INSERT"}
  /\ \E failed \in BOOLEAN :
       IF ~failed
       THEN /\ \E p \in RandomRows(currentBatchSize) :
                 table' = InsertRows(table, p)
            /\ remainingRows' = remainingRows - currentBatchSize
            /\ pc' = "gen_count"
            /\ err' = err
       ELSE /\ ReturnError
            /\ UNCHANGED << table, remainingRows >>
  /\ UNCHANGED << tableExists, rowCount, selectivities, recreateTable,
                  currentRowCount, currentBatchSize, rowsForSelectivities, idx,
                  actualRowCount, shapedAtStart, entryRows >>
  /\ NoteChange
  /\ UNCHANGED << planVars, execVars, genVars, aggVars, runVars >>

\* generateRandomData: the final count, and ANALYZE TABLE.
GenValidate ==
  /\ pc = "gen_validate"
  /\ \E failed \in BOOLEAN :
       IF ~failed /\ CountAll(table) = rowCount
       THEN pc' = "adjust" /\ err' = err
       ELSE ReturnError
  /\ UNCHANGED << tableExists, table, rowCount, selectivities, recreateTable,
                  currentRowCount, remainingRows, currentBatchSize,
                  rowsForSelectivities, idx, actualRowCount, stmts, shapedAtStart,
                  changed, entryRows >>
  /\ UNCHANGED << planVars, execVars, genVars, aggVars, runVars >>

\* ------------------------------------------------------ adjustSelectivities
Range(s) == {s[k] : k \in DOMAIN s}

\* The rows the increase step may take: "WHERE b NOT IN (<all targets>)" when
\* more than one selectivity is given, no WHERE clause at all for a single one.
NotInPool(sels, targets) ==
  IF Len(sels) > 1 THEN Vals \ Range(targets) ELSE Vals

\* limit := min(rowsForThisSelectivity, batchSize)
IncLimit(rows) == Min(rows, batchSize)

\* if numberOfRowsToUpdate >= rowCount
TotalTooLarge(total, rows) == total >= rows

\* The checks adjustSelectivities makes before its first statement.
AdjustEnter ==
  /\ pc = "adjust"
  /\ entryRows' = CountAll(table)
  /\ rowsForSelectivities' = RowsFor(rowCount, selectivities)
  /\ IF \/ Len(selectivities) = 0
        \/ TotalTooLarge(SumSeq(RowsFor(rowCount, selectivities)), rowCount)
     THEN ReturnError
     ELSE pc' = "norm_count" /\ err' = err
  /\ UNCHANGED << tableExists, table, rowCount, selectivities, recreateTable,
                  currentRowCount, remainingRows, currentBatchSize, idx,
                  actualRowCount, stmts, shapedAtStart, changed >>
  /\ UNCHANGED << planVars, execVars, genVars, aggVars, runVars >>

\* SELECT COUNT(*) ... where b <= 0, the head of the normalization loop.
NormCount ==
  /\ pc = "norm_count"
  /\ \E failed \in BOOLEAN :
       IF failed THEN ReturnError /\ UNCHANGED << actualRowCount, idx >>
       ELSE /\ actualRowCount' = CountNonPositive(table)
            /\ err' = err
            /\ IF CountNonPositive(table) = 0
               THEN pc' = "spec_count" /\ idx' = 1
               ELSE pc' = "norm_update" /\ idx' = idx
  /\ UNCHANGED << tableExists, table, rowCount, selectivities, recreateTable,
                  currentRowCount, remainingRows, currentBatchSize,
                  rowsForSelectivities, stmts, shapedAtStart, changed,
                  entryRows >>
  /\ UNCHANGED << planVars, execVars, genVars, aggVars, runVars >>

\* UPDATE ... SET b = <filler> WHERE b <= 0 LIMIT batchSize
NormUpdate ==
  /\ pc = "norm_update"
  /\ stmts' = stmts \cup {"UPDATE normalize"}
  /\ \E failed \in BOOLEAN :
       IF ~failed
       THEN /\ \E b \in getRandomNotInList(rowsForSelectivities) :
                 \E p \in Picks(table, {v \in Vals : v <= 0}, batchSize) :
                    table' = UpdateRows(table, p, b)
            /\ pc' = "norm_count"
            /\ err' = err
       ELSE ReturnError /\ UNCHANGED table
  /\ UNCHANGED << tableExists, rowCount, selectivities, recreateTable,
                  currentRowCount, remainingRows, currentBatchSize,
                  rowsForSelectivities, idx, actualRowCount, shapedAtStart, entryRows >>
  /\ NoteChange
  /\ UNCHANGED << planVars, execVars, genVars, aggVars, runVars >>

\* Where the per-spec loop goes after a count of the rows at the target.
AfterCount(count, rows) ==
  IF count > rows THEN "dec_update"
  ELSE IF count < rows THEN "inc_update"
  ELSE "spec_count"

\* One iteration head of "for i, sel := range selectivities": the skip of a
\* non-positive cardinality, the count, and the skip of a matching count.
SpecCount ==
  /\ pc = "spec_count"
  /\ idx <= Len(selectivities)
  /\ LET rows == rowsForSelectivities[idx] IN
       IF rows <= 0
       THEN /\ idx' = idx + 1
            /\ UNCHANGED << pc, err, actualRowCount >>
       ELSE \E failed \in BOOLEAN :
              IF failed THEN ReturnError /\ UNCHANGED << idx, actualRowCount >>
              ELSE /\ actualRowCount' = CountEq(table, rows)
                   /\ err' = err
                   /\ pc' = AfterCount(CountEq(table, rows), rows)
                   /\ idx' = IF CountEq(table, rows) = rows
                             THEN idx + 1 ELSE idx
  /\ UNCHANGED << tableExists, table, rowCount, selectivities, recreateTable,
                  currentRowCount, remainingRows, currentBatchSize,
                  rowsForSelectivities, stmts, shapedAtStart, changed,
                  entryRows >>
  /\ UNCHANGED << planVars, execVars, genVars, aggVars, runVars >>

\* "Too many rows": UPDATE ... SET b = <filler> WHERE b = <target>
\* ORDER BY RAND() LIMIT batchSize
DecUpdate ==
  /\ pc = "dec_update"
  /\ stmts' = stmts \cup {"UPDATE decrease"}
  /\ \E failed \in BOOLEAN :
       IF ~failed
       THEN /\ \E b \in getRandomNotInList(rowsForSelectivities) :
                 \E p \in Picks(table, {rowsForSelectivities[idx]}, batchSize) :
                    table' = UpdateRows(table, p, b)
            /\ pc' = "dec_count"
            /\ err' = err
       ELSE ReturnError /\ UNCHANGED table
  /\ UNCHANGED << tableExists, rowCount, selectivities, recreateTable,
                  currentRowCount, remainingRows, currentBatchSize,
                  rowsForSelectivities, idx, actualRowCount, shapedAtStart, entryRows >>
  /\ NoteChange
  /\ UNCHANGED << planVars, execVars, genVars, aggVars, runVars >>

\* The count that closes one round of the decrease loop; the loop is left
\* when the count is no longer above the target, and the increase loop runs
\* when it is below.
DecCount ==
  /\ pc = "dec_count"
  /\ LET rows == rowsForSelectivities[idx] IN
       \E failed \in BOOLEAN :
         IF failed THEN ReturnError /\ UNCHANGED << idx, actualRowCount >>
         ELSE /\ actualRowCount' = CountEq(table, rows)
              /\ err' = err
              /\ pc' = AfterCount(CountEq(table, rows), rows)
              /\ idx' = IF CountEq(table, rows) = rows THEN idx + 1 ELSE idx
  /\ UNCHANGED << tableExists, table, rowCount, selectivities, recreateTable,
                  currentRowCount, remainingRows, currentBatchSize,
                  rowsForSelectivities, stmts, shapedAtStart, changed,
                  entryRows >>
  /\ UNCHANGED << planVars, execVars, genVars, aggVars, runVars >>

\* UPDATE ... SET b = <target> [WHERE b NOT IN (...)] ORDER BY RAND() LIMIT
\* min(target, batchSize)
IncUpdate ==
  /\ pc = "inc_update"
  /\ stmts' = stmts \cup {"UPDATE increase"}
  /\ LET rows == rowsForSelectivities[idx] IN
       \E failed \in BOOLEAN :
         IF ~failed
         THEN /\ \E p \in Picks(table,
                               NotInPool(selectivities, rowsForSelectivities),
                               IncLimit(rows)) :
                   table' = UpdateRows(table, p, rows)
              /\ pc' = "inc_count"
              /\ err' = err
         ELSE ReturnError /\ UNCHANGED table
  /\ UNCHANGED << tableExists, rowCount, selectivities, recreateTable,
                  currentRowCount, remainingRows, currentBatchSize,
                  rowsForSelectivities, idx, actualRowCount, shapedAtStart, entryRows >>
  /\ NoteChange
  /\ UNCHANGED << planVars, execVars, genVars, aggVars, runVars >>

\* The count that closes one round of the increase loop; the loop is left as
\* soon as the count is not below the target.
IncCount ==
  /\ pc = "inc_count"
  /\ LET rows == rowsForSelectivities[idx] IN
       \E failed \in BOOLEAN :
         IF failed THEN ReturnError /\ UNCHANGED << idx, actualRowCount >>
         ELSE /\ actualRowCount' = CountEq(table, rows)
              /\ err' = err
              /\ IF CountEq(table, rows) < rows
                 THEN pc' = "inc_update" /\ idx' = idx
                 ELSE pc' = "spec_count" /\ idx' = idx + 1
  /\ UNCHANGED << tableExists, table, rowCount, selectivities, recreateTable,
                  currentRowCount, remainingRows, currentBatchSize,
                  rowsForSelectivities, stmts, shapedAtStart, changed,
                  entryRows >>
  /\ UNCHANGED << planVars, execVars, genVars, aggVars, runVars >>

\* The verification loop (a mismatch only prints a warning), ANALYZE TABLE,
\* and the return.
VerifyAndAnalyze ==
  /\ pc = "spec_count"
  /\ idx > Len(selectivities)
  /\ stmts' = stmts \cup {"ANALYZE"}
  /\ pc' = "done"
  /\ \E failed \in BOOLEAN : err' = IF ~failed THEN "nil" ELSE "error"
  /\ UNCHANGED << tableExists, table, rowCount, selectivities, recreateTable,
                  currentRowCount, remainingRows, currentBatchSize,
                  rowsForSelectivities, idx, actualRowCount, shapedAtStart,
                  changed, entryRows >>
  /\ UNCHANGED << planVars, execVars, genVars, aggVars, runVars >>

\* ------------------------------------------------------ claims on the shaper

\* C1: when shaping returns without error, then for every spec the number of
\* rows whose b equals the spec's target cardinality is exactly that
\* cardinality.
C1_ExactCardinalities ==
  (pc = "done" /\ err = "nil") =>
    \A k \in 1 .. Len(selectivities) :
      CountEq(table, rowsForSelectivities[k]) = rowsForSelectivities[k]

\* C2: when the target cardinalities sum to the row count or more, shaping
\* returns an error and has issued no statement that changes the table,
\* whatever the prior state of the table.
C2_RejectedBeforeMutation ==
  SumSeq(RowsFor(rowCount, selectivities)) >= rowCount =>
    /\ stmts \cap Mutating = {}
    /\ pc = "done" => err = "error"

\* C5: shaping is idempotent: when it finds the table holding N rows, none
\* with a non-positive b and every spec's count at its cardinality, it issues
\* no statement that changes rows and leaves every row's value as it was.
C5_Idempotent ==
  (shapedAtStart /\ ~recreateTable) =>
    /\ stmts \cap RowChanging = {}
    /\ ~changed
    /\ tableExists
    /\ Shaped(table, rowCount, selectivities)

\* C5 witness: a run on a shaped table with two positive targets has returned.
C5_Witness ==
  /\ shapedAtStart
  /\ ~recreateTable
  /\ pc = "done"
  /\ err = "nil"
  /\ Len(selectivities) = 2
  /\ rowsForSelectivities[1] > 0
  /\ rowsForSelectivities[2] > rowsForSelectivities[1]

\* C6: adjustSelectivities never changes the number of rows: in every state
\* from its entry on (normalization, decrease, increase, return) the table
\* holds the N rows it held on entry.
C6_RowCountPreserved ==
  entryRows # -1 =>
    /\ tableExists
    /\ CountAll(table) = entryRows
    /\ entryRows = rowCount

\* C6 witness: a run in which the normalization, the decrease step and the
\* increase step each updated rows has returned.
C6_Witness ==
  /\ entryRows # -1
  /\ pc = "done"
  /\ Updates \subseteq stmts

\* round(rows * s) for a fraction s = num/den, halves rounded away from zero.
RoundedProduct(rows, sel) == (2 * rows * sel.num + sel.den) \div (2 * sel.den)

\* C11: the target cardinality of a selectivity s is round(rows * s) when
\* 0 < s < 1 and s itself when s >= 1.
C11_TargetIsRounded ==
  \A k \in 1 .. Len(rowsForSelectivities) :
    rowsForSelectivities[k] =
      (IF selectivities[k].num < selectivities[k].den
       THEN RoundedProduct(rowCount, selectivities[k])
       ELSE selectivities[k].num \div selectivities[k].den)

\* In a step of the normalization or of the decrease loop no value gains
\* rows unless it is positive and none of the target cardinalities.
FillerIsNoTarget ==
  pc \in {"norm_update", "dec_update"} =>
    \A v \in Vals :
      (table'[v] > table[v]) =>
        (v > 0 /\ v \notin Range(rowsForSelectivities))

\* C24: every filler value the normalization and the decrease step assign is
\* positive and is none of the requested target cardinalities.
C24_FillerAvoidsTargets == [][FillerIsNoTarget]_vars

\* In a step of the increase loop no target loses rows, and the target of
\* the step gains as many rows as the statement's limit and the rows at no
\* target allow.
IncreaseTakesFromPool ==
  (pc = "inc_update" /\ pc' = "inc_count") =>
    LET rows == rowsForSelectivities[idx]
        pool == Vals \ Range(rowsForSelectivities)
    IN  /\ \A v \in Range(rowsForSelectivities) : table'[v] >= table[v]
        /\ table'[rows] =
             table[rows] + Min(IncLimit(rows), SumOver(table, pool))

\* C25: in the increase step every row set to the target held a value that
\* is none of the requested target cardinalities before, whatever the number
\* of specs, so that the step lowers the count of no other spec and picks no
\* row that is at the target already.
C25_IncreaseTakesFromPool == [][IncreaseTakesFromPool]_vars

\* C26: generateRandomData, started on the emptied table, never holds more than
\* rowCount rows; it inserts only while the count is below rowCount, and never
\* more than the rows still missing; generateTestData goes on to
\* adjustSelectivities only with exactly rowCount rows (any other final count
\* is the error return).
C26_GeneratesExactly ==
  /\ pc \in {"gen_count", "gen_insert", "gen_validate"} =>
       CountAll(table) <= rowCount
  /\ pc = "gen_insert" =>
       /\ currentBatchSize > 0
       /\ CountAll(table) + currentBatchSize <= rowCount
  /\ pc = "adjust" => CountAll(table) = rowCount

\* Generation in more than one batch went through to the shaper.
C26_Witness ==
  /\ pc = "adjust"
  /\ "INSERT" \in stmts
  /\ rowCount > genBatchSize
  /\ rowCount % genBatchSize # 0
  /\ CountAll(table) = rowCount

\* One successful batch brings its loop nearer to its exit: the normalization
\* leaves fewer rows at b <= 0, the decrease step (when the filler is not the
\* value being reduced, that is when the statement changed the table) fewer
\* rows at the target, the increase step more rows at the target.
BatchMakesProgress ==
  LET target == rowsForSelectivities[idx] IN
  /\ (pc = "norm_update" /\ pc' = "norm_count") =>
       CountNonPositive(table') < CountNonPositive(table)
  /\ (pc = "dec_update" /\ pc' = "dec_count" /\ table' # table) =>
       CountEq(table', target) < CountEq(table, target)
  /\ (pc = "inc_update" /\ pc' = "inc_count") =>
       CountEq(table', target) > CountEq(table, target)

\* C28: shaping terminates after a bounded number of batches: with every
\* statement succeeding, each batch of the normalization loop, of a decrease
\* loop and of an increase loop strictly moves the count its loop tests, a
\* number between 0 and the table's row count, toward the loop's exit. (A
\* batch that moves nothing leaves the program where it was before the batch,
\* to run the same statement again.)
C28_EveryBatchMakesProgress == [][BatchMakesProgress]_vars

ShapeNext ==
  \/ CheckTableStatus
  \/ DropTable
  \/ CreateTable
  \/ TruncateTable
  \/ GenCount
  \/ GenInsert
  \/ GenValidate
  \/ AdjustEnter
  \/ NormCount
  \/ NormUpdate
  \/ SpecCount
  \/ DecUpdate
  \/ DecCount
  \/ IncUpdate
  \/ IncCount
  \/ VerifyAndAnalyze

SpecShape == ShapeInit /\ [][ShapeNext]_vars

\* ------------------------------------------------- plan parser and classifier
MaxPlanRows == 3
MaxNodes == 3

\* Rows of EXPLAIN: id, estRows, task, access object, operator info.
Rows5 ==
  { << idTableReader, 1000, "root", "", "data:Selection_6" >>,
    << idSelection, 1000, "cop[tikv]", "", "eq(test.t.b, 100)" >>,
    << idTableFullScan, 100000, "cop[tikv]", "table:t", "keep order:false" >>,
    << idIndexLookUp, 333, "root", "", "" >>,
    << idIndexRangeScan, 333, "cop[tikv]", "table:t, index:b(b)",
       "range:[100,100]" >>,
    << idTableIndexScan, 15, "cop[tikv]", "table:t", "" >> }

\* Rows of EXPLAIN FOR CONNECTION: id, estRows, actRows, task, access object,
\* execution info, operator info, memory, disk.
Rows9 ==
  { << idTableReader, 1000, 1000, "root", "", << InfoTime >>,
       "data:Selection_6", "2.1 KB", "N/A" >>,
    << idSelection, 1000, 1000, "cop[tikv]", "",
       << InfoTime, InfoHit("0.00") >>, "eq(test.t.b, 100)", "N/A", "N/A" >>,
    << idSelection, 1000, 1000, "cop[tikv]", "",
       << InfoTime, InfoHit("0.50") >>, "eq(test.t.b, 100)", "N/A", "N/A" >>,
    << idTableFullScan, 100000, 100000, "cop[tikv]", "table:t",
       << InfoNoCache >>, "keep order:false", "N/A", "N/A" >>,
    << idIndexLookUp, 333, 1000, "root", "", << InfoTime >>, "", "9.5 KB",
       "N/A" >>,
    << idIndexRangeScan, 333, 1000, "cop[tikv]", "table:t, index:b(b)",
       << InfoHit("0.00"), InfoHit("1.00") >>, "range:[100,100]", "N/A",
       "N/A" >>,
    << idTableIndexScan, 15, 20, "cop[tikv]", "table:t", <<>>, "", "N/A",
       "N/A" >> }

ColumnCounts == {4, 5, 9, 10}

\* The rows a response of c columns can hold.
RowsOf(c) ==
  IF c = 5 THEN Rows5
  ELSE IF c = 9 THEN Rows9
  ELSE { [k \in 1 .. c |-> IF k = 1 THEN idTableReader ELSE ""] }

Responses ==
  UNION { [columns : {c}, rows : SeqsUpTo(RowsOf(c), MaxPlanRows)] :
          c \in ColumnCounts }

\* Plans of the JSON client: a node has an id and its children in order.
TreeIds == {idIndexLookUp, idTableReader, idSelection, idTableIndexScan}

RECURSIVE TreesOfSize(_)
RECURSIVE ForestsOfSize(_)
TreesOfSize(n) ==
  { [ID |-> i, Children |-> f] : i \in TreeIds, f \in ForestsOfSize(n - 1) }

ForestsOfSize(m) ==
  IF m = 0 THEN { <<>> }
  ELSE UNION { { << t >> \o f : t \in TreesOfSize(k),
                                f \in ForestsOfSize(m - k) } : k \in 1 .. m }

Trees == UNION { TreesOfSize(n) : n \in 1 .. MaxNodes }

ShapeIdle ==
  /\ tableExists = FALSE
  /\ table = EmptyTable
  /\ selectivities = <<>>
  /\ ShapeCtlIdle

PlanInit ==
  /\ ShapeIdle
  /\ ExecIdle
  /\ GenIdle
  /\ AggIdle
  /\ RunIdle
  /\ plan = <<>>
  /\ planErr = "none"
  /\ planType = ""
  /\ \/ /\ ppc = "start"
        /\ response \in Responses
        /\ tree = <<>>
     \/ /\ ppc = "start json"
        /\ response = EmptyResponse
        /\ tree \in { <<>> } \cup { << t >> : t \in Trees }

\* parseTabularExecutionPlan on the response of a plan query.
ParseTabular ==
  /\ ppc = "start"
  /\ plan' = parseTabularExecutionPlan(response).plan
  /\ planErr' = parseTabularExecutionPlan(response).err
  /\ ppc' = "parsed"
  /\ UNCHANGED << response, tree, planType >>
  /\ UNCHANGED << shapeVars, execVars, genVars, aggVars, runVars >>

\* determinePlanType of the tabular client, on what the parser returned.
DeterminePlanType ==
  /\ ppc = "parsed"
  /\ planType' = determinePlanType(plan)
  /\ ppc' = "classified"
  /\ UNCHANGED << response, plan, planErr, tree >>
  /\ UNCHANGED << shapeVars, execVars, genVars, aggVars, runVars >>

\* determinePlanType of the JSON client, on a tree.
DeterminePlanTypeTree ==
  /\ ppc = "start json"
  /\ planType' = determinePlanTypeTree(tree)
  /\ ppc' = "classified json"
  /\ UNCHANGED << response, plan, planErr, tree >>
  /\ UNCHANGED << shapeVars, execVars, genVars, aggVars, runVars >>

PlanNext ==
  \/ ParseTabular
  \/ DeterminePlanType
  \/ DeterminePlanTypeTree

SpecPlan == PlanInit /\ [][PlanNext]_vars


\* ---------------------------------------------------- executeQueryWithMetrics
\* LIMIT of the two invalidation UPDATEs (50000 in the source), scaled down.
invalidateLimit == 2

\* The value of retry in the recursive call.
RecursiveRetryAgain == TRUE
RecursiveRetry == FALSE

rowReader ==
  << idTableReader, 1000, 1000, "root", "", << InfoTime >>,
     "data:Selection_6", "2.1 KB", "N/A" >>
rowScanCold ==
  << idTableFullScan, 100000, 100000, "cop[tikv]", "table:t",
     << InfoTime, InfoHit("0.00") >>, "keep order:false", "N/A", "N/A" >>
rowScanCached ==
  << idTableFullScan, 100000, 100000, "cop[tikv]", "table:t",
     << InfoTime, InfoHit("0.50") >>, "keep order:false", "N/A", "N/A" >>
rowLookUp ==
  << idIndexLookUp, 333, 1000, "root", "", << InfoTime >>, "", "9.5 KB",
     "N/A" >>
rowRangeCached ==
  << idIndexRangeScan, 333, 1000, "cop[tikv]", "table:t, index:b(b)",
     << InfoHit("0.00"), InfoHit("1.00") >>, "range:[100,100]", "N/A",
     "N/A" >>

\* What EXPLAIN FOR CONNECTION may answer after an execution.
ActualResponses ==
  { [columns |-> 9, rows |-> << rowReader, rowScanCold >>],
    [columns |-> 9, rows |-> << rowReader, rowScanCached >>],
    [columns |-> 9, rows |-> << rowScanCached >>],
    [columns |-> 9, rows |-> << rowLookUp >>],
    [columns |-> 9, rows |-> << rowLookUp, rowRangeCached >>],
    [columns |-> 9, rows |-> <<>>],
    [columns |-> 4, rows |-> << << idTableReader, "", "", "" >> >>] }

\* What EXPLAIN may answer.
ExplainResponses ==
  { r \in Responses : r.columns = 5 /\ Len(r.rows) <= 1 }

Scenarios ==
  [Variant : {"Index", "TableScan"}, ExplainOnly : {FALSE},
   SearchValue : 1 .. RandRange]
  \cup [Variant : {"ExplainOnly"}, ExplainOnly : {TRUE},
        SearchValue : 1 .. RandRange]

\* A plan shows cache contamination when some node's execution info has a
\* hit ratio other than 0.00.
Contaminated(chain) ==
  \E k \in 1 .. Len(chain) :
    \E j \in 1 .. Len(chain[k].ExecutionInfo) :
      /\ chain[k].ExecutionInfo[j].key = "copr_cache_hit_ratio"
      /\ chain[k].ExecutionInfo[j].val # "0.00"

ExecInit ==
  /\ tableExists = TRUE
  /\ table \in UNION { BagsOfSize(1 .. RandRange, n) : n \in 0 .. MaxRows }
  /\ selectivities = <<>>
  /\ ShapeCtlIdle
  /\ PlanIdle
  /\ GenIdle
  /\ AggIdle
  /\ RunIdle
  /\ testScenario \in Scenarios
  /\ retry = TRUE
  /\ epc = "start"
  /\ bVal = 0
  /\ rowsCounted = 0
  /\ res = <<>>
  /\ execErr = "none"
  /\ log = <<>>

ExecFrame ==
  /\ UNCHANGED << tableExists, selectivities, shapeCtl, genVars, aggVars, runVars >>
  /\ UNCHANGED << response, tree, ppc, testScenario >>

\* return nil, err
ExecReturnError ==
  /\ res' = <<>>
  /\ execErr' = "error"
  /\ epc' = "done"

\* What time.Since(startTime) may give for an executed query, in ticks.
ElapsedTimes == {2, 5}

\* A faulty variant of IsExplainOnly: the branch is never taken.
IsExplainOnlyNever(scenario) == FALSE

\* if testScenario.ExplainOnly
IsExplainOnly(scenario) == scenario.ExplainOnly

\* res as the function fills it in; a field it does not assign keeps its
\* zero value.
Result(type, rows, elapsed) ==
  [ Variant |-> testScenario.Variant, ExplainOnly |-> testScenario.ExplainOnly,
    PlanType |-> type, RowsReturned |-> rows, ExecutionTime |-> elapsed ]

\* The ExplainOnly branch: GetExecutionPlan and determinePlanType.
ExplainOnlyScenario ==
  /\ epc = "start"
  /\ IsExplainOnly(testScenario)
  /\ \E failed \in BOOLEAN, resp \in ExplainResponses :
       LET r == parseTabularExecutionPlan(resp)
       IN  IF failed \/ r.err = "error"
           THEN /\ ExecReturnError
                /\ UNCHANGED << plan, planErr, planType >>
           ELSE /\ plan' = r.plan
                /\ planErr' = r.err
                /\ planType' = determinePlanType(r.plan)
                /\ res' = << Result(determinePlanType(r.plan), 0, 0) >>
                /\ execErr' = "nil"
                /\ epc' = "done"
  /\ UNCHANGED << table, retry, bVal, rowsCounted, log >>
  /\ ExecFrame

\* ExecuteQuery and the loop that counts the rows and scans the first one.
ExecuteQuery ==
  /\ epc = "start"
  /\ ~IsExplainOnly(testScenario)
  /\ log' = Append(log, "execute")
  /\ \E failed \in BOOLEAN :
       IF failed
       THEN /\ ExecReturnError
            /\ UNCHANGED << bVal, rowsCounted >>
       ELSE /\ rowsCounted' = CountEq(table, testScenario.SearchValue)
            /\ bVal' = IF CountEq(table, testScenario.SearchValue) > 0
                       THEN testScenario.SearchValue ELSE 0
            /\ epc' = "fetch"
            /\ UNCHANGED << res, execErr >>
  /\ UNCHANGED << table, retry, plan, planErr, planType >>
  /\ ExecFrame

\* GetActualExecutionPlan, determinePlanType and the isCoprCacheUsed test.
FetchActualPlan ==
  /\ epc = "fetch"
  /\ \E failed \in BOOLEAN, resp \in ActualResponses :
       LET r == parseTabularExecutionPlan(resp)
       IN  IF failed \/ r.err = "error"
           THEN /\ ExecReturnError
                /\ UNCHANGED << plan, planErr, planType, log >>
           ELSE /\ plan' = r.plan
                /\ planErr' = r.err
                /\ planType' = determinePlanType(r.plan)
                /\ IF isCoprCacheUsed(r.plan)
                   THEN IF ~retry
                        THEN /\ ExecReturnError
                             /\ log' = Append(log, IF Contaminated(r.plan)
                                                   THEN "contaminated"
                                                   ELSE "clean")
                        ELSE /\ epc' = "invalidate"
                             /\ log' = log \o << IF Contaminated(r.plan)
                                                 THEN "contaminated"
                                                 ELSE "clean",
                                                 "invalidate" >>
                             /\ UNCHANGED << res, execErr >>
                   ELSE /\ \E elapsed \in ElapsedTimes :
                             res' = << Result(determinePlanType(r.plan),
                                              rowsCounted, elapsed) >>
                        /\ execErr' = "nil"
                        /\ epc' = "done"
                        /\ log' = log \o << IF Contaminated(r.plan)
                                            THEN "contaminated" ELSE "clean",
                                            "return" >>
  /\ UNCHANGED << table, retry, bVal, rowsCounted >>
  /\ ExecFrame

\* UPDATE t SET b = -313 where b = <bVal> LIMIT 50000
InvalidateUpdate ==
  /\ epc = "invalidate"
  /\ \E failed \in BOOLEAN :
       IF failed
       THEN /\ ExecReturnError
            /\ UNCHANGED table
       ELSE /\ \E p \in Picks(table, {bVal}, invalidateLimit) :
                 table' = UpdateRows(table, p, Sentinel)
            /\ epc' = "invalidate count"
            /\ UNCHANGED << res, execErr >>
  /\ UNCHANGED << retry, bVal, rowsCounted, log, plan, planErr, planType >>
  /\ ExecFrame

\* SELECT COUNT(*) FROM t WHERE b = <bVal>
InvalidateCount ==
  /\ epc = "invalidate count"
  /\ \E failed \in BOOLEAN :
       IF failed
       THEN ExecReturnError
       ELSE /\ epc' = IF CountEq(table, bVal) = 0 THEN "restore"
                      ELSE "invalidate"
            /\ UNCHANGED << res, execErr >>
  /\ UNCHANGED << table, retry, bVal, rowsCounted, log, plan, planErr,
                  planType >>
  /\ ExecFrame

\* UPDATE t SET b = <bVal> where b = -313 LIMIT 50000
RestoreUpdate ==
  /\ epc = "restore"
  /\ \E failed \in BOOLEAN :
       IF failed
       THEN /\ ExecReturnError
            /\ UNCHANGED table
       ELSE /\ \E p \in Picks(table, {Sentinel}, invalidateLimit) :
                 table' = UpdateRows(table, p, bVal)
            /\ epc' = "restore count"
            /\ UNCHANGED << res, execErr >>
  /\ UNCHANGED << retry, bVal, rowsCounted, log, plan, planErr, planType >>
  /\ ExecFrame

\* SELECT COUNT(*) FROM t WHERE b = -313, and when none is left the recursive
\* call executeQueryWithMetrics(testScenario, false), whose locals start at
\* their zero values.
RestoreCount ==
  /\ epc = "restore count"
  /\ \E failed \in BOOLEAN :
       IF failed
       THEN /\ ExecReturnError
            /\ UNCHANGED << retry, bVal, rowsCounted, log >>
       ELSE IF CountEq(table, Sentinel) = 0
            THEN /\ epc' = "start"
                 /\ retry' = RecursiveRetry
                 /\ bVal' = 0
                 /\ rowsCounted' = 0
                 /\ log' = Append(log, "restored")
                 /\ UNCHANGED << res, execErr >>
            ELSE /\ epc' = "restore"
                 /\ UNCHANGED << retry, bVal, rowsCounted, log, res, execErr >>
  /\ UNCHANGED << table, plan, planErr, planType >>
  /\ ExecFrame

ExecNext ==
  \/ ExplainOnlyScenario
  \/ ExecuteQuery
  \/ FetchActualPlan
  \/ InvalidateUpdate
  \/ InvalidateCount
  \/ RestoreUpdate
  \/ RestoreCount

SpecExec == ExecInit /\ [][ExecNext]_vars

\* executeQueryWithMetrics runs to its return: the function is sequential code
\* on its caller's goroutine, so a step that can be taken is taken.
SpecExecFair == SpecExec /\ WF_vars(ExecNext)

\* One step leaves every count but those of the matched value and the sentinel
\* alone, and moves rows only between these two.
CycleConserves ==
  /\ \A v \in Vals \ {Sentinel, bVal} : table'[v] = table[v]
  /\ table'[bVal] + table'[Sentinel] = table[bVal] + table[Sentinel]

\* No statement of the cycle has run yet, or its last count found no row left
\* at the sentinel.
OutsideCycle ==
  \/ "invalidate" \notin Range(log)
  \/ "restored" \in Range(log)

InCycle ==
  epc \in {"invalidate", "invalidate count", "restore", "restore count"}

\* C27: the invalidation cycle on a table without sentinel rows moves rows only
\* between the matched value and the sentinel, has no row at the sentinel when
\* it completes (so every value has the rows it had before the cycle), and
\* always comes to its end, the recursive call or an error return.
C27_CycleRestores ==
  /\ [][CycleConserves]_vars
  /\ [](OutsideCycle => table[Sentinel] = 0)
  /\ (InCycle ~> ~InCycle)

\* The cycle has completed on a table with more matching rows than one batch
\* moves.
C27_Witness ==
  /\ "restored" \in Range(log)
  /\ table[testScenario.SearchValue] > invalidateLimit
  /\ table[Sentinel] = 0

\* C3: a result returned without error for an Index or TableScan scenario
\* comes from an execution whose actual plan shows no cache contamination in
\* any node: the plan fetched last is clean, the rows returned are those that
\* execution counted, and no return ever follows a contaminated plan.
C3_NoContaminatedResult ==
  /\ (epc = "done" /\ execErr = "nil" /\ ~testScenario.ExplainOnly) =>
       /\ Len(res) = 1
       /\ ~Contaminated(plan)
       /\ res[1].RowsReturned = rowsCounted
       /\ res[1].PlanType = planType
  /\ \A k \in 1 .. Len(log) :
       log[k] = "return" => (k > 1 /\ log[k - 1] = "clean")

\* C3 witness: a first attempt whose plan was contaminated has been followed
\* by a second attempt with a clean plan of two nodes, and its result
\* returned.
C3_Witness ==
  /\ epc = "done"
  /\ execErr = "nil"
  /\ ~testScenario.ExplainOnly
  /\ Len(res) = 1
  /\ Len(plan) = 2
  /\ \E k \in 1 .. Len(log) : log[k] = "contaminated"
  /\ res[1].RowsReturned > 0

IsPrefix(a, b) == Len(a) <= Len(b) /\ a = SubSeq(b, 1, Len(a))

Count(l, e) == Cardinality({k \in 1 .. Len(l) : l[k] = e})

CleanRun == << "execute", "clean", "return" >>
RetryRun ==
  << "execute", "contaminated", "invalidate", "restored", "execute", "clean",
     "return" >>
FailedRetryRun ==
  << "execute", "contaminated", "invalidate", "restored", "execute",
     "contaminated" >>

\* C4: for one Index or TableScan scenario the query is executed at most
\* twice and the invalidation cycle run at most once. A contaminated first
\* attempt starts the one invalidation cycle, and once that cycle has
\* completed the query is executed exactly once more; an uncontaminated first
\* attempt starts none and returns; a contaminated second attempt ends the
\* scenario with an error, with no further invalidation or execution.
C4_AtMostOneRetry ==
  /\ Count(log, "execute") <= 2
  /\ Count(log, "invalidate") <= 1
  /\ \/ IsPrefix(log, CleanRun)
     \/ IsPrefix(log, RetryRun)
     \/ IsPrefix(log, FailedRetryRun)
  /\ (Len(log) >= 2 /\ log[2] = "contaminated") =>
       /\ Len(log) >= 3
       /\ log[3] = "invalidate"
       /\ (epc = "done" /\ execErr = "nil") => log = RetryRun
       /\ (epc = "done" /\ Count(log, "restored") = 1) =>
            Count(log, "execute") = 2
  /\ (Len(log) >= 2 /\ log[2] = "clean") =>
       /\ log = CleanRun
       /\ epc = "done"
       /\ execErr = "nil"
  /\ log = FailedRetryRun =>
       /\ epc = "done"
       /\ execErr = "error"
       /\ res = <<>>

\* C4 witness: the second attempt was contaminated too and the scenario has
\* ended, after an invalidation that took more than one UPDATE batch.
C4_Witness ==
  /\ log = FailedRetryRun
  /\ epc = "done"
  /\ rowsCounted > invalidateLimit

\* C21: for an ExplainOnly scenario only the static plan is requested and
\* classified: the query is not executed, the actual plan is not fetched, no
\* invalidation statement is issued (the history stays empty and the function
\* is at its entry or has returned), and the result has no rows returned and
\* no execution time.
C21_ExplainOnlyDoesNotExecute ==
  testScenario.ExplainOnly =>
    /\ log = <<>>
    /\ epc \in {"start", "done"}
    /\ \A k \in 1 .. Len(res) :
         /\ res[k].ExplainOnly
         /\ res[k].RowsReturned = 0
         /\ res[k].ExecutionTime = 0

\* An ExplainOnly scenario has returned a classified result over a table
\* with rows that match its query.
C21_Witness ==
  /\ testScenario.ExplainOnly
  /\ epc = "done"
  /\ execErr = "nil"
  /\ Len(res) = 1
  /\ res[1].PlanType = "index_lookup"
  /\ CountEq(table, testScenario.SearchValue) > 0

\* The rule for one node: index_lookup when the lower-cased id contains
\* "index" and not "table", otherwise table_scan when it contains
\* "tablereader", otherwise unknown.
RuleNode(id) ==
  CASE Contains(ToLower(id), strIndex) /\ ~Contains(ToLower(id), strTable)
         -> "index_lookup"
    [] ~(Contains(ToLower(id), strIndex) /\ ~Contains(ToLower(id), strTable))
       /\ Contains(ToLower(id), strTableReader)
         -> "table_scan"
    [] OTHER -> "unknown"

\* The rule for a list of ids in visiting order: the classification of the
\* first id that has one.
RuleIds(ids) ==
  IF \E k \in 1 .. Len(ids) : RuleNode(ids[k]) # "unknown"
  THEN LET first == CHOOSE k \in 1 .. Len(ids) :
                      /\ RuleNode(ids[k]) # "unknown"
                      /\ \A j \in 1 .. (k - 1) : RuleNode(ids[j]) = "unknown"
       IN  RuleNode(ids[first])
  ELSE "unknown"

\* The ids of a tree, a node before its children, the children in order.
RECURSIVE PreOrder(_)
RECURSIVE PreOrderAll(_)
PreOrder(node) == << node.ID >> \o PreOrderAll(node.Children)
PreOrderAll(children) ==
  IF children = <<>> THEN <<>>
  ELSE PreOrder(Head(children)) \o PreOrderAll(Tail(children))

ChainIds(chain) == [k \in 1 .. Len(chain) |-> chain[k].ID]

\* C8: on every chain and every tree, the nil plan included, the classifier
\* returns one of index_lookup, table_scan, unknown, and its result is the
\* rule's: the node's own classification when it has one, otherwise the first
\* classification among its successors or children in order, otherwise
\* unknown. A plan headed by IndexLookUp_10 is an index_lookup and one headed
\* by TableReader_7 a table_scan.
C8_ClassifierFollowsRule ==
  /\ ppc = "classified" =>
       /\ planType \in PlanTypes
       /\ planType = RuleIds(ChainIds(plan))
       /\ (plan # <<>> /\ plan[1].ID = idIndexLookUp)
            => planType = "index_lookup"
       /\ (plan # <<>> /\ plan[1].ID = idTableReader)
            => planType = "table_scan"
  /\ ppc = "classified json" =>
       /\ planType \in PlanTypes
       /\ planType =
            (IF tree = <<>> THEN "unknown" ELSE RuleIds(PreOrder(tree[1])))
       /\ (tree # <<>> /\ tree[1].ID = idIndexLookUp)
            => planType = "index_lookup"
       /\ (tree # <<>> /\ tree[1].ID = idTableReader)
            => planType = "table_scan"

\* C8 witness: a tree whose root has no classification of its own, whose
\* first child names both an index and a table, and whose second child is a
\* table reader, has been classified by its second child.
C8_Witness ==
  /\ ppc = "classified json"
  /\ tree # <<>>
  /\ tree[1].ID = idSelection
  /\ Len(tree[1].Children) = 2
  /\ tree[1].Children[1].ID = idTableIndexScan
  /\ tree[1].Children[2].ID = idTableReader
  /\ planType = "table_scan"

\* The fields of a node that a row of the response gives.
Carries(node, row, columns) ==
  IF columns = 5
  THEN /\ node.ID = row[1]
       /\ node.EstRows = row[2]
       /\ node.Task = row[3]
       /\ node.AccessObject = row[4]
       /\ node.OperatorInfo = row[5]
  ELSE /\ node.ID = row[1]
       /\ node.EstRows = row[2]
       /\ node.ActRows * Tenths = row[3]
       /\ node.Task = row[4]
       /\ node.AccessObject = row[5]
       /\ node.ExecutionInfo = row[6]
       /\ node.OperatorInfo = row[7]
       /\ node.Memory = row[8]
       /\ node.Disk = row[9]

\* C9: for a response of k >= 1 rows with 5 or 9 columns the parser returns a
\* chain of exactly k nodes, and the i-th node carries the field values of the
\* i-th row.
C9_ChainCarriesRows ==
  (ppc = "parsed" /\ response.columns \in {5, 9} /\ Len(response.rows) >= 1)
    => /\ planErr = "nil"
       /\ Len(plan) = Len(response.rows)
       /\ \A i \in 1 .. Len(response.rows) :
            Carries(plan[i], response.rows[i], response.columns)

\* C10: for a response whose column count is neither 5 nor 9, and for a
\* response with no rows, the parser returns an error and no plan.
C10_UnsupportedIsError ==
  (ppc = "parsed" /\ (response.columns \notin {5, 9} \/ response.rows = <<>>))
    => /\ planErr = "error"
       /\ plan = <<>>

\* C10 witness: a response of four columns holding rows has been parsed.
C10_Witness ==
  /\ ppc = "parsed"
  /\ response.columns = 4
  /\ Len(response.rows) >= 1

\* ------------------------------ GetTestScenariosWithRowCountsAndSelectivities
MaxRowCounts == 2
MaxRepetitions == 2
MaxSeed == 3

RowCountChoices == {500, 2000, 2500, 3000000}

DigitChars == << "0", "1", "2", "3", "4", "5", "6", "7", "8", "9" >>

\* fmt.Sprintf("%d", n) for n >= 0.
RECURSIVE Itoa(_)
Itoa(n) ==
  IF n < 10 THEN << DigitChars[n + 1] >>
  ELSE Itoa(n \div 10) \o << DigitChars[(n % 10) + 1] >>

\* formatRowCountName
formatRowCountName(count) ==
  IF count >= 1000000 THEN Itoa(count \div 1000000) \o << "M" >>
  ELSE IF count >= 1000 THEN Itoa(count \div 1000) \o << "K" >>
  ELSE Itoa(count)

\* formatSelectivityName, the same number in both generators: the target
\* cardinality when v < 1.0, int(v) otherwise.
formatSelectivityName(r, v) == Itoa(GetNumRows(r, v))

strIndexUnderscore == << "i", "n", "d", "e", "x", "_" >>

\* searchValue of the generator without the shuffle: a selectivity of
\* exactly 1.0 is still taken as a fraction there.
SearchValueOfFraction(count, sel) ==
  IF sel.num <= sel.den THEN (count * sel.num) \div sel.den
  ELSE sel.num \div sel.den

\* A faulty variant of Repeat: the loop runs once more.
RepeatOnceMore(scenario, k) == [i \in 1 .. (k + 1) |-> scenario]

\* for range repetitions { scenarios = append(scenarios, scenario) }
Repeat(scenario, k) == [i \in 1 .. k |-> scenario]

\* The scenarios appended for one row count and one selectivity.
ScenariosFor(count, sel, searchValue, k) ==
  LET tableSizeName == formatRowCountName(count)
      id == strIndexUnderscore \o tableSizeName \o << "_" >>
              \o formatSelectivityName(count, sel)
      Scenario(variant, hint, explainOnly) ==
        [ ID |-> id, Variant |-> variant,
          Query |-> [hint |-> hint, table |-> tableSizeName,
                     b |-> searchValue],
          TableName |-> << "t" >> \o tableSizeName, RowCount |-> count,
          ExplainOnly |-> explainOnly ]
  IN  << Scenario("ExplainOnly", "", TRUE) >>
      \o Repeat(Scenario("Index", "FORCE_INDEX", FALSE), k)
      \o Repeat(Scenario("TableScan", "IGNORE_INDEX", FALSE), k)

\* The two nested loops; old tells the generator without the shuffle.
RECURSIVE ForSelectivities(_, _, _, _)
ForSelectivities(count, sels, k, old) ==
  IF sels = <<>> THEN <<>>
  ELSE ScenariosFor(count, Head(sels),
                    IF old THEN SearchValueOfFraction(count, Head(sels))
                    ELSE GetNumRows(count, Head(sels)), k)
       \o ForSelectivities(count, Tail(sels), k, old)

RECURSIVE ForRowCounts(_, _, _, _)
ForRowCounts(counts, sels, k, old) ==
  IF counts = <<>> THEN <<>>
  ELSE ForSelectivities(Head(counts), sels, k, old)
       \o ForRowCounts(Tail(counts), sels, k, old)

\* The random source: a small generator stepped once per draw.
NextSeed(x) == (5 * x + 3) % 16

Swap(l, i, j) ==
  [k \in 1 .. Len(l) |-> IF k = i THEN l[j] ELSE IF k = j THEN l[i] ELSE l[k]]

\* rand.Shuffle: for i from n-1 down to 1, swap i with a drawn j in 0 .. i
\* (positions are 1-based here).
RECURSIVE Shuffle(_, _, _)
Shuffle(l, i, x) ==
  IF i <= 1 THEN l
  ELSE Shuffle(Swap(l, i, (NextSeed(x) % i) + 1), i - 1, NextSeed(x))

GenInit ==
  /\ tableExists = FALSE
  /\ table = EmptyTable
  /\ ShapeCtlIdle
  /\ PlanIdle
  /\ ExecIdle
  /\ AggIdle
  /\ RunIdle
  /\ rowCounts \in SeqsUpTo(RowCountChoices, MaxRowCounts)
  /\ selectivities \in SeqsUpTo(SelChoices, MaxSpecs)
  /\ repetitions \in 0 .. MaxRepetitions
  /\ seed \in 0 .. MaxSeed
  /\ scenarios = <<>>
  /\ gpc = "start"

\* GetTestScenariosWithRowCountsAndSelectivities of scenarios.go.
GetTestScenarios ==
  /\ gpc = "start"
  /\ LET built == ForRowCounts(rowCounts, selectivities, repetitions, FALSE)
     IN  scenarios' = Shuffle(built, Len(built), seed)
  /\ gpc' = "shuffled"
  /\ UNCHANGED << rowCounts, repetitions, seed >>
  /\ UNCHANGED << shapeVars, planVars, execVars, aggVars, runVars >>

\* GetTestScenariosWithRowCountsAndSelectivities without the shuffle.
GetTestScenariosInOrder ==
  /\ gpc = "start"
  /\ scenarios' = ForRowCounts(rowCounts, selectivities, repetitions, TRUE)
  /\ gpc' = "generated"
  /\ UNCHANGED << rowCounts, repetitions, seed >>
  /\ UNCHANGED << shapeVars, planVars, execVars, aggVars, runVars >>

GenNext ==
  \/ GetTestScenarios
  \/ GetTestScenariosInOrder

SpecGen == GenInit /\ [][GenNext]_vars

CountWhere(l, P(_)) == Cardinality({k \in 1 .. Len(l) : P(l[k])})

RECURSIVE DigitsValue(_)
DigitsValue(str) ==
  IF str = <<>> THEN 0
  ELSE 10 * DigitsValue(SubSeq(str, 1, Len(str) - 1))
       + (CHOOSE d \in 0 .. 9 : DigitChars[d + 1] = str[Len(str)])

\* The text after the last "_" of an id, and the text between "index_" and
\* that "_".
LastUnderscore(str) ==
  CHOOSE k \in 1 .. Len(str) :
    str[k] = "_" /\ \A j \in (k + 1) .. Len(str) : str[j] # "_"
IdCardinality(id) ==
  DigitsValue(SubSeq(id, LastUnderscore(id) + 1, Len(id)))
IdTableSize(id) == SubSeq(id, 7, LastUnderscore(id) - 1)

\* C12: the scenarios generated for one (row count, selectivity) pair carry
\* one ID; the value each scenario's query searches for is the cardinality in
\* its ID; and two scenarios carry the same ID only if they have the same
\* table-size label and the same target cardinality.
C12_IdNamesTableAndCardinality ==
  gpc \in {"shuffled", "generated"} =>
    /\ \A i \in 1 .. Len(scenarios) :
         /\ scenarios[i].Query.b = IdCardinality(scenarios[i].ID)
         /\ << "t" >> \o IdTableSize(scenarios[i].ID) = scenarios[i].TableName
    /\ \A i, j \in 1 .. Len(scenarios) :
         /\ (scenarios[i].RowCount = scenarios[j].RowCount
             /\ scenarios[i].Query.b = scenarios[j].Query.b)
              => scenarios[i].ID = scenarios[j].ID
         /\ scenarios[i].ID = scenarios[j].ID
              => /\ scenarios[i].TableName = scenarios[j].TableName
                 /\ scenarios[i].Query.b = scenarios[j].Query.b

\* ---------------------------------------------------------------------
\* The report of a run: the sort that ends runAllTestCombinations and
\* outputResultsTable (main.go).
\* ---------------------------------------------------------------------

MaxResults == 3

\* Execution times of executed queries, in ticks of the clock.
Durations == {2, 5}

\* Scenario ids as the generator renders them.
ResultIds ==
  {ScenariosFor(500, [num |-> 1, den |-> 2], 250, 0)[1].ID,
   ScenariosFor(2000, [num |-> 2, den |-> 1], 2, 0)[1].ID}

\* The TestExecutionResult values executeQueryWithMetrics returns: an
\* ExplainOnly result carries no execution time.
TestExecutionResults ==
  {[ScenarioID |-> id, ExplainOnly |-> TRUE, PlanType |-> pt,
    ExecutionTime |-> 0, RowsReturned |-> 0] :
     id \in ResultIds, pt \in {"index_lookup", "table_scan"}}
  \cup
  {[ScenarioID |-> id, ExplainOnly |-> FALSE, PlanType |-> pt,
    ExecutionTime |-> t, RowsReturned |-> IdCardinality(id)] :
     id \in ResultIds, pt \in {"index_lookup", "table_scan"},
     t \in Durations}

\* Byte order of the characters ids are made of.
CharOrder ==
  << "/", "0", "1", "2", "3", "4", "5", "6", "7", "8", "9", "K", "M", "_",
     "a", "b", "c", "d", "e", "i", "l", "n", "s", "t", "x" >>
CharRank(c) == CHOOSE k \in 1 .. Len(CharOrder) : CharOrder[k] = c

\* a < b for Go strings.
RECURSIVE StringLess(_, _)
StringLess(a, b) ==
  IF b = <<>> THEN FALSE
  ELSE IF a = <<>> THEN TRUE
  ELSE IF Head(a) # Head(b) THEN CharRank(Head(a)) < CharRank(Head(b))
  ELSE StringLess(Tail(a), Tail(b))

\* l without its element at position i.
Without(l, i) == SubSeq(l, 1, i - 1) \o SubSeq(l, i + 1, Len(l))

\* sort.Slice(results, ScenarioID <): the sort is not stable, so any order of
\* the results that ascends by id may come out.
RECURSIVE SortedByScenarioID(_)
SortedByScenarioID(l) ==
  IF l = <<>> THEN {<<>>}
  ELSE LET least == {i \in 1 .. Len(l) : \A j \in 1 .. Len(l) :
                       ~StringLess(l[j].ScenarioID, l[i].ScenarioID)}
       IN  UNION {{<< l[i] >> \o rest :
                     rest \in SortedByScenarioID(Without(l, i))} :
                  i \in least}

\* sort.Strings of a set of strings.
RECURSIVE SortStrings(_)
SortStrings(S) ==
  IF S = {} THEN <<>>
  ELSE LET least == CHOOSE x \in S : \A y \in S : ~StringLess(y, x)
       IN  << least >> \o SortStrings(S \ {least})

\* A Go map read and write: a missing key reads as the zero value.
MapGet(mp, k) == IF k \in DOMAIN mp THEN mp[k] ELSE 0
MapPut(mp, k, v) == [x \in DOMAIN mp \cup {k} |-> IF x = k THEN v ELSE mp[x]]

\* A faulty variant of IsNewMinimum: the comparison is turned around.
IsNewMinimumTurned(ok, minimum, t) == ~ok \/ minimum < t

\* !ok || minimum > res.ExecutionTime
IsNewMinimum(ok, minimum, t) == ~ok \/ minimum > t

\* A faulty variant of NotTested: the error is never logged.
NotTestedNever(sums, pt) == FALSE

\* if _, ok := planTypeSum[explainOnlyPlanType]; !ok { slog.Error(...) }
NotTested(sums, pt) == pt \notin DOMAIN sums

\* One pass of the loop over a group.
GroupStep(acc, r) ==
  IF r.ExplainOnly
  THEN [acc EXCEPT !.explainOnlyPlanType = r.PlanType]
  ELSE LET pt == r.PlanType
           t == r.ExecutionTime
       IN  [ explainOnlyPlanType |-> acc.explainOnlyPlanType,
             planTypeMin |->
               IF IsNewMinimum(pt \in DOMAIN acc.planTypeMin,
                               MapGet(acc.planTypeMin, pt), t)
               THEN MapPut(acc.planTypeMin, pt, t) ELSE acc.planTypeMin,
             planTypeSum |->
               MapPut(acc.planTypeSum, pt, MapGet(acc.planTypeSum, pt) + t),
             planTypeMax |->
               IF t > MapGet(acc.planTypeMax, pt)
               THEN MapPut(acc.planTypeMax, pt, t) ELSE acc.planTypeMax,
             planTypeCount |->
               MapPut(acc.planTypeCount, pt,
                      MapGet(acc.planTypeCount, pt) + 1) ]

RECURSIVE GroupLoop(_, _)
GroupLoop(group, acc) ==
  IF group = <<>> THEN acc
  ELSE GroupLoop(Tail(group), GroupStep(acc, Head(group)))

\* What is computed for one group: the plan types (printed in the order of
\* sort.Strings), the ExplainOnly plan type, and per plan type the minimum, the average (sum over count,
\* held as that fraction) and the maximum.
GroupReport(group) ==
  LET acc == GroupLoop(group,
               [explainOnlyPlanType |-> "", planTypeMin |-> << >>,
                planTypeSum |-> << >>, planTypeMax |-> << >>,
                planTypeCount |-> << >>])
      types == DOMAIN acc.planTypeSum
  IN  [ planTypes |-> types,
        explainOnlyPlanType |-> acc.explainOnlyPlanType,
        errorLogged |-> NotTested(acc.planTypeSum, acc.explainOnlyPlanType),
        minTimes |-> [pt \in types |-> acc.planTypeMin[pt]],
        avgTimes |-> [pt \in types |->
                        [sum |-> acc.planTypeSum[pt],
                         count |-> acc.planTypeCount[pt]]],
        maxTimes |-> [pt \in types |-> MapGet(acc.planTypeMax, pt)] ]

\* The results of one scenario id, in the order of the list.
GroupOf(l, id) == SelectSeq(l, LAMBDA r : r.ScenarioID = id)

\* The first loop of outputResultsTable: the ids in order and the report of
\* each group.
Groups(l) ==
  LET ids == {l[i].ScenarioID : i \in 1 .. Len(l)}
  IN  [ scenarioIDs |-> SortStrings(ids),
        byId |-> [id \in ids |-> GroupReport(GroupOf(l, id))] ]

\* strings.Split(id, "_"): the parts of id, and parts[1] when it is there.
RECURSIVE Split(_, _)
Split(str, cur) ==
  IF str = <<>> THEN << cur >>
  ELSE IF Head(str) = "_" THEN << cur >> \o Split(Tail(str), <<>>)
  ELSE Split(Tail(str), Append(cur, Head(str)))
TableSizesOf(l) ==
  {Split(l[i].ScenarioID, <<>>)[2] :
     i \in {k \in 1 .. Len(l) : Len(Split(l[k].ScenarioID, <<>>)) >= 2}}

\* strconv.Atoi succeeds on a non-empty run of digits.
IsDigits(str) == str # <<>> /\ \A k \in 1 .. Len(str) : str[k] \in Range(DigitChars)

\* parseTableSizeToNumber
parseTableSizeToNumber(tableSize) ==
  LET n == Len(tableSize)
      stem == SubSeq(tableSize, 1, n - 1)
  IN  IF IsDigits(tableSize) THEN DigitsValue(tableSize)
      ELSE IF n > 0 /\ tableSize[n] = "K" /\ IsDigits(stem)
           THEN DigitsValue(stem) * 1000
      ELSE IF n > 0 /\ tableSize[n] = "M" /\ IsDigits(stem)
           THEN DigitsValue(stem) * 1000000
      ELSE 0

\* sortTableSizes
RECURSIVE sortTableSizes(_)
sortTableSizes(S) ==
  IF S = {} THEN <<>>
  ELSE LET least == CHOOSE x \in S : \A y \in S :
                      parseTableSizeToNumber(x) <= parseTableSizeToNumber(y)
       IN  << least >> \o sortTableSizes(S \ {least})

\* selectivities := []string{"1/2", "1/4", ..., "1/512"}
detailSelectivities ==
  << << "1", "/", "2" >>, << "1", "/", "4" >>, << "1", "/", "8" >>,
     << "1", "/", "1", "6" >>, << "1", "/", "3", "2" >>,
     << "1", "/", "6", "4" >>, << "1", "/", "1", "2", "8" >>,
     << "1", "/", "2", "5", "6" >>, << "1", "/", "5", "1", "2" >> >>

strTablescanUnderscore ==
  << "t", "a", "b", "l", "e", "s", "c", "a", "n", "_" >>

\* The last result of l whose id holds sel and the prefix: a pointer.
LastMatching(l, sel, isIndex) ==
  LET hits == SelectSeq(l, LAMBDA r :
                /\ Contains(r.ScenarioID, sel)
                /\ IF isIndex THEN Contains(r.ScenarioID, strIndexUnderscore)
                   ELSE /\ ~Contains(r.ScenarioID, strIndexUnderscore)
                        /\ Contains(r.ScenarioID, strTablescanUnderscore))
  IN  IF hits = <<>> THEN <<>> ELSE << hits[Len(hits)] >>

DetailRow(r, queryType, tableSize) ==
  [ ScenarioID |-> r.ScenarioID, PlanType |-> r.PlanType,
    queryType |-> queryType, ExecutionTime |-> r.ExecutionTime,
    RowsReturned |-> r.RowsReturned, tableSize |-> tableSize ]

\* The rows printed for one table size and the selectivities from k on.
RECURSIVE DetailRowsForSelectivities(_, _, _)
DetailRowsForSelectivities(tableResults, tableSize, k) ==
  IF k > Len(detailSelectivities) THEN <<>>
  ELSE LET indexResult ==
             LastMatching(tableResults, detailSelectivities[k], TRUE)
           tableScanResult ==
             LastMatching(tableResults, detailSelectivities[k], FALSE)
       IN  (IF indexResult = <<>> THEN <<>>
            ELSE << DetailRow(indexResult[1], "Index", tableSize) >>)
           \o (IF tableScanResult = <<>> THEN <<>>
               ELSE << DetailRow(tableScanResult[1], "TableScan",
                                 tableSize) >>)
           \o DetailRowsForSelectivities(tableResults, tableSize, k + 1)

\* The detail table: the loop over the table sizes.
RECURSIVE DetailRowsForSizes(_, _)
DetailRowsForSizes(l, tableSizes) ==
  IF tableSizes = <<>> THEN <<>>
  ELSE DetailRowsForSelectivities(
         SelectSeq(l, LAMBDA r : Contains(r.ScenarioID, Head(tableSizes))),
         Head(tableSizes), 1)
       \o DetailRowsForSizes(l, Tail(tableSizes))
DetailRows(l) == DetailRowsForSizes(l, sortTableSizes(TableSizesOf(l)))

\* The execution times and the rows returned of a list of results.
TimesOf(l) == [i \in 1 .. Len(l) |-> l[i].ExecutionTime]
ReturnedRowsOf(l) == [i \in 1 .. Len(l) |-> l[i].RowsReturned]

\* avg = sum / time.Duration(count) under "if count > 0"; 0 otherwise.
AvgDuration(sum, count) == IF count > 0 THEN sum \div count ELSE 0

\* outputCompactSummaryTable: the sums, counts and averages of one table size.
\* A result enters by its PlanType; the averages of the rows are kept as sum
\* and count.
CompactRow(l, tableSize) ==
  LET ofSize == SelectSeq(l, LAMBDA r : Contains(r.ScenarioID, tableSize))
      index == SelectSeq(ofSize, LAMBDA r : r.PlanType = "index_lookup")
      scan == SelectSeq(ofSize, LAMBDA r :
                r.PlanType # "index_lookup" /\ r.PlanType = "table_scan")
  IN  [ tableSize |-> tableSize,
        indexTime |-> SumSeq(TimesOf(index)),
        indexRows |-> SumSeq(ReturnedRowsOf(index)),
        indexCount |-> Len(index),
        scanTime |-> SumSeq(TimesOf(scan)),
        scanRows |-> SumSeq(ReturnedRowsOf(scan)),
        scanCount |-> Len(scan),
        avgIndexTime |-> AvgDuration(SumSeq(TimesOf(index)), Len(index)),
        avgScanTime |-> AvgDuration(SumSeq(TimesOf(scan)), Len(scan)) ]

\* outputCompactSummaryTable: one row per table size, by size.
outputCompactSummaryTable(l) ==
  LET tableSizes == sortTableSizes(TableSizesOf(l))
  IN  [k \in 1 .. Len(tableSizes) |-> CompactRow(l, tableSizes[k])]

\* outputSummaryStatistics: the totals, the counts per plan type with
\* len(results) as the denominator of the averages and of the percentages,
\* and the averages per plan type. With no results only "No results found"
\* is printed.
outputSummaryStatistics(l) ==
  LET index == SelectSeq(l, LAMBDA r : r.PlanType = "index_lookup")
      scan == SelectSeq(l, LAMBDA r :
                r.PlanType # "index_lookup" /\ r.PlanType = "table_scan")
  IN  IF Len(l) = 0 THEN << >>
      ELSE << [ totalTests |-> Len(l),
                totalTime |-> SumSeq(TimesOf(l)),
                avgTime |-> SumSeq(TimesOf(l)) \div Len(l),
                totalRows |-> SumSeq(ReturnedRowsOf(l)),
                indexLookups |-> Len(index),
                tableScans |-> Len(scan),
                denominator |-> Len(l),
                avgIndexTime |-> AvgDuration(SumSeq(TimesOf(index)), Len(index)),
                avgTableScanTime |-> AvgDuration(SumSeq(TimesOf(scan)), Len(scan)) ] >>

AggInit ==
  /\ tableExists = FALSE
  /\ table = EmptyTable
  /\ selectivities = <<>>
  /\ ShapeCtlIdle
  /\ PlanIdle
  /\ ExecIdle
  /\ GenIdle
  /\ RunIdle
  /\ results \in SeqsUpTo(TestExecutionResults, MaxResults)
  /\ report = [groups |-> <<>>, detail |-> <<>>]
  /\ apc = "collected"

AggFrame == UNCHANGED << shapeVars, planVars, execVars, genVars, runVars >>

\* sort.Slice(results, ...) at the end of runAllTestCombinations.
SortResults ==
  /\ apc = "collected"
  /\ results' \in SortedByScenarioID(results)
  /\ apc' = "sorted"
  /\ UNCHANGED report
  /\ AggFrame

\* outputResultsTable(results), outputCompactSummaryTable(results) and
\* outputSummaryStatistics(results), which runAllTestCombinations calls one
\* after the other.
OutputResultsTable ==
  /\ apc = "sorted"
  /\ report' = [groups |-> Groups(results), detail |-> DetailRows(results),
                compact |-> outputCompactSummaryTable(results),
                summary |-> outputSummaryStatistics(results)]
  /\ apc' = "reported"
  /\ UNCHANGED results
  /\ AggFrame

AggNext == SortResults \/ OutputResultsTable

SpecAgg == AggInit /\ [][AggNext]_vars

\* The orders of a list of n elements, and l in the order q.
Orders(n) ==
  {q \in [1 .. n -> 1 .. n] : \A i, j \in 1 .. n : q[i] = q[j] => i = j}
Permuted(l, q) == [i \in 1 .. Len(l) |-> l[q[i]]]

\* C13: the aggregation does not depend on the order in which the results
\* were collected: whatever the order of the same results before the sort,
\* and whatever order the sort leaves them in, the groups and, for each group,
\* the ExplainOnly plan type, the executed plan types and the minimum, the
\* average and the maximum per plan type are the ones reported.
C13_OrderIndependent ==
  apc = "reported" =>
    \A q \in Orders(Len(results)) :
      \A l \in SortedByScenarioID(Permuted(results, q)) :
        Groups(l).byId = report.groups.byId

\* The executed results of one group with one plan type, by position.
ExecutedOf(l, id, pt) ==
  {i \in 1 .. Len(l) :
     l[i].ScenarioID = id /\ ~l[i].ExplainOnly /\ l[i].PlanType = pt}
RECURSIVE SumTimes(_, _)
SumTimes(l, I) ==
  IF I = {} THEN 0
  ELSE LET i == CHOOSE x \in I : TRUE
       IN  l[i].ExecutionTime + SumTimes(l, I \ {i})

C18_OneRowPerExecuted ==
  apc = "reported" =>
    /\ Len(report.detail) =
         Cardinality({i \in 1 .. Len(results) : ~results[i].ExplainOnly})
    /\ \A i \in 1 .. Len(results) :
         ~results[i].ExplainOnly =>
           \E k \in 1 .. Len(report.detail) :
             /\ report.detail[k].ScenarioID = results[i].ScenarioID
             /\ report.detail[k].PlanType = results[i].PlanType
             /\ report.detail[k].ExecutionTime = results[i].ExecutionTime

\* ---------------------------------------------------------------------
\* The process: main, the flag parsers, runAllTestCombinations and
\* TestRunner.RunScenarioWithActualPlan.
\* ---------------------------------------------------------------------

\* strings.Split(str, ",")
RECURSIVE SplitComma(_, _)
SplitComma(str, cur) ==
  IF str = <<>> THEN << cur >>
  ELSE IF Head(str) = "," THEN << cur >> \o SplitComma(Tail(str), <<>>)
  ELSE SplitComma(Tail(str), Append(cur, Head(str)))

\* strings.TrimSpace
RECURSIVE TrimSpace(_)
TrimSpace(str) ==
  IF str = <<>> THEN str
  ELSE IF Head(str) = " " THEN TrimSpace(Tail(str))
  ELSE IF str[Len(str)] = " " THEN TrimSpace(SubSeq(str, 1, Len(str) - 1))
  ELSE str

\* strconv.Atoi: an optional sign and a run of digits.
Atoi(str) ==
  LET signed == str # <<>> /\ Head(str) \in {"+", "-"}
      digits == IF signed THEN Tail(str) ELSE str
  IN  IF IsDigits(digits)
      THEN [ok |-> TRUE,
            val |-> IF signed /\ Head(str) = "-" THEN 0 - DigitsValue(digits)
                    ELSE DigitsValue(digits)]
      ELSE [ok |-> FALSE, val |-> 0]

RECURSIVE Pow10(_)
Pow10(n) == IF n = 0 THEN 1 ELSE 10 * Pow10(n - 1)

\* strconv.ParseFloat of a decimal numeral: an optional sign, digits, and an
\* optional point with digits; the value is the fraction num/den.
ParseFloat(str) ==
  LET signed == str # <<>> /\ Head(str) \in {"+", "-"}
      body == IF signed THEN Tail(str) ELSE str
      points == {k \in 1 .. Len(body) : body[k] = "."}
      whole == IF points = {} THEN body
               ELSE SubSeq(body, 1, (CHOOSE k \in points : TRUE) - 1)
      frac == IF points = {} THEN <<>>
              ELSE SubSeq(body, (CHOOSE k \in points : TRUE) + 1, Len(body))
      ok == /\ Cardinality(points) <= 1
            /\ whole \o frac # <<>>
            /\ \A k \in 1 .. Len(whole \o frac) :
                 (whole \o frac)[k] \in Range(DigitChars)
      magnitude == DigitsValue(whole \o frac)
  IN  IF ok
      THEN [ok |-> TRUE,
            num |-> IF signed /\ Head(str) = "-" THEN 0 - magnitude
                    ELSE magnitude,
            den |-> Pow10(Len(frac))]
      ELSE [ok |-> FALSE, num |-> 0, den |-> 1]

\* The loop of parseRowCounts over the parts.
RECURSIVE parseRowCountParts(_, _)
parseRowCountParts(parts, rows) ==
  IF parts = <<>>
  THEN IF rows = <<>> THEN [err |-> TRUE, rows |-> <<>>]
       ELSE [err |-> FALSE, rows |-> rows]
  ELSE LET part == TrimSpace(Head(parts))
           lower == ToLower(SubSeq(part, Len(part), Len(part)))
           suffixed == lower \in {<< "k" >>, << "m" >>, << "g" >>}
           multiplier == IF lower = << "k" >> THEN 1000
                         ELSE IF lower = << "m" >> THEN 1000000
                         ELSE IF lower = << "g" >> THEN 1000000000
                         ELSE 1
           number == Atoi(IF suffixed THEN SubSeq(part, 1, Len(part) - 1)
                          ELSE part)
       IN  IF part = <<>> THEN parseRowCountParts(Tail(parts), rows)
           ELSE IF ~number.ok THEN [err |-> TRUE, rows |-> <<>>]
           ELSE IF number.val <= 0 THEN [err |-> TRUE, rows |-> <<>>]
           ELSE parseRowCountParts(Tail(parts),
                                   Append(rows, number.val * multiplier))

\* parseRowCounts
parseRowCounts(rowCountsStr) ==
  IF rowCountsStr = <<>> THEN [err |-> TRUE, rows |-> <<>>]
  ELSE parseRowCountParts(SplitComma(rowCountsStr, <<>>), <<>>)

\* The loop of parseSelectivities over the parts.
RECURSIVE parseSelectivityParts(_, _)
parseSelectivityParts(parts, sels) ==
  IF parts = <<>>
  THEN IF sels = <<>> THEN [err |-> TRUE, selectivities |-> <<>>]
       ELSE [err |-> FALSE, selectivities |-> sels]
  ELSE LET part == TrimSpace(Head(parts))
           count == Atoi(part)
           percentage == ParseFloat(part)
       IN  IF part = <<>> THEN parseSelectivityParts(Tail(parts), sels)
           ELSE IF count.ok
           THEN IF count.val <= 0 THEN [err |-> TRUE, selectivities |-> <<>>]
                ELSE parseSelectivityParts(Tail(parts),
                       Append(sels, [num |-> count.val, den |-> 1]))
           ELSE IF percentage.ok
           THEN IF \/ percentage.num <= 0
                   \/ percentage.num > 100 * percentage.den
                THEN [err |-> TRUE, selectivities |-> <<>>]
                ELSE parseSelectivityParts(Tail(parts),
                       Append(sels, [num |-> percentage.num,
                                     den |-> percentage.den * 100]))
           ELSE [err |-> TRUE, selectivities |-> <<>>]

\* parseSelectivities
parseSelectivities(selectivitiesStr) ==
  IF selectivitiesStr = <<>> THEN [err |-> TRUE, selectivities |-> <<>>]
  ELSE parseSelectivityParts(SplitComma(selectivitiesStr, <<>>), <<>>)

\* setupLogging: the level the handler gets.
setupLogging(level) ==
  IF level \in {"debug", "info", "warn", "error"} THEN level ELSE "info"

\* Values of the -rows flag: lists the parser takes (one of them with two
\* counts of the same table-size label), and lists with nothing in them, a
\* count that is no number and a count that is not positive.
ValidRowsArgs ==
  {<< "2", ",", "1" >>, << "1", "k" >>, << " ", "3" >>,
   << "1", "k", ",", "1", "5", "0", "0" >>}
InvalidRowsArgs == {<<>>, << "," >>, << "x" >>, << "0" >>, << "-", "1" >>}

\* Values of the -selectivity flag: a percentage and a row count, and lists
\* with nothing in them, no number, a value that is not positive and a
\* percentage above 100.
ValidSelectivityArgs == {<< "5", "0", ".", "0" >>, << "1" >>}
InvalidSelectivityArgs ==
  {<<>>, << "x" >>, << "0" >>, << "-", "5", ".", "0" >>,
   << "1", "0", "0", ".", "5" >>}

\* Values of -repetitions and -log-level.
RepetitionsArgs == {-1, 0, 1}
LogLevelArgs == {"info", "verbose"}

\* The steps of TiDBClient.Connect that can fail.
ConnectSteps == {"open", "ping", "getConnectionID"}

RunInit ==
  /\ tableExists = FALSE
  /\ table = EmptyTable
  /\ selectivities = <<>>
  /\ ShapeCtlIdle
  /\ PlanIdle
  /\ ExecIdle
  /\ AggIdle
  /\ rowCounts = <<>>
  /\ repetitions = 0
  /\ scenarios = <<>>
  /\ seed \in {0, MaxSeed}
  /\ gpc = "idle"
  /\ args \in [logLevel : LogLevelArgs,
               rows : ValidRowsArgs \cup InvalidRowsArgs,
               selectivity : ValidSelectivityArgs \cup InvalidSelectivityArgs,
               repetitions : RepetitionsArgs]
  /\ mpc = "start"
  /\ logLevel = ""
  /\ exitStatus = 0
  /\ connectErr = "none"
  /\ pos = 0
  /\ tableCache = {}
  /\ attempts = <<>>

\* os.Exit(code), or the return from main with code 0.
Exit(code) ==
  /\ mpc' = "exited"
  /\ exitStatus' = code

\* main up to the call of RunOptimizerTests.
ParseFlags ==
  /\ mpc = "start"
  /\ logLevel' = setupLogging(args.logLevel)
  /\ LET rows == parseRowCounts(args.rows)
         selValues == parseSelectivities(args.selectivity)
     IN  IF rows.err \/ selValues.err
         THEN /\ Exit(1)
              /\ UNCHANGED << selectivities, genVars >>
         ELSE /\ rowCounts' = rows.rows
              /\ selectivities' = selValues.selectivities
              /\ repetitions' = args.repetitions
              /\ gpc' = "start"
              /\ mpc' = "generate"
              /\ UNCHANGED << exitStatus, scenarios, seed >>
  /\ UNCHANGED << tableExists, table, shapeCtl, planVars, execVars, aggVars >>
  /\ UNCHANGED << args, connectErr, pos, tableCache, attempts >>

\* The state of the random source after a shuffle of n elements.
RECURSIVE SeedAfter(_, _)
SeedAfter(n, x) == IF n <= 1 THEN x ELSE SeedAfter(n - 1, NextSeed(x))

\* runAllTestCombinations up to the loop: Connect, NewTestRunner and the
\* shuffle.  When Connect fails the function returns, RunOptimizerTests
\* returns nil and main prints its last line and returns.
Connect ==
  /\ mpc = "generate"
  /\ gpc = "shuffled"
  /\ \E e \in ConnectSteps \cup {"nil"} :
       /\ connectErr' = e
       /\ IF e # "nil"
          THEN /\ Exit(0)
               /\ UNCHANGED << scenarios, pos, apc >>
          ELSE /\ scenarios' =
                    Shuffle(scenarios, Len(scenarios),
                            SeedAfter(Len(scenarios), seed))
               /\ pos' = 1
               /\ mpc' = "loop"
               /\ apc' = IF scenarios = <<>> THEN "collected" ELSE apc
               /\ UNCHANGED exitStatus
  /\ tableCache' = {}
  /\ UNCHANGED << shapeVars, planVars, execVars, results, report >>
  /\ UNCHANGED << rowCounts, repetitions, seed, gpc >>
  /\ UNCHANGED << args, logLevel, attempts >>

\* A faulty variant of Collect: a result is appended for a scenario that
\* returned an error as well.
CollectAlways(l, result, failed) == Append(l, result)

\* if err != nil { continue }; results = append(results, result)
Collect(l, result, failed) == IF failed THEN l ELSE Append(l, result)

\* The result ExecuteQueryWithMetrics returns for a scenario.
ResultOf(scenario, type) ==
  [ ScenarioID |-> scenario.ID, ExplainOnly |-> scenario.ExplainOnly,
    PlanType |-> type,
    ExecutionTime |-> IF scenario.ExplainOnly THEN 0
                      ELSE CHOOSE t \in Durations : \A u \in Durations : t <= u,
    RowsReturned |-> IF scenario.ExplainOnly THEN 0 ELSE scenario.Query.b ]

\* One pass of the execution loop: RunScenarioWithActualPlan and what the
\* loop does with what it returns.  setupTableWithData and
\* ExecuteQueryWithMetrics each succeed or fail.
RunScenario ==
  /\ mpc = "loop"
  /\ pos <= Len(scenarios)
  /\ apc = "idle"
  /\ LET scenario == scenarios[pos]
         cached == scenario.TableName \in tableCache
     IN  \E setupFails, queryFails \in BOOLEAN,
            type \in {"index_lookup", "table_scan"} :
           IF ~cached /\ setupFails
           THEN /\ attempts' = Append(attempts,
                     [pos |-> pos, ID |-> scenario.ID,
                      TableName |-> scenario.TableName,
                      setup |-> "failed", executed |-> FALSE, err |-> TRUE,
                      returned |-> <<>>])
                /\ results' = Collect(results, ResultOf(scenario, type), TRUE)
                /\ UNCHANGED tableCache
           ELSE /\ tableCache' = tableCache \cup {scenario.TableName}
                /\ attempts' = Append(attempts,
                     [pos |-> pos, ID |-> scenario.ID,
                      TableName |-> scenario.TableName,
                      setup |-> IF cached THEN "cached" ELSE "ok",
                      executed |-> TRUE, err |-> queryFails,
                      returned |-> IF queryFails THEN <<>>
                                   ELSE << ResultOf(scenario, type) >>])
                /\ results' =
                     Collect(results, ResultOf(scenario, type), queryFails)
  /\ pos' = pos + 1
  /\ apc' = IF pos = Len(scenarios) THEN "collected" ELSE apc
  /\ UNCHANGED << shapeVars, planVars, execVars, genVars, report >>
  /\ UNCHANGED << args, mpc, logLevel, exitStatus, connectErr >>

\* The return of runAllTestCombinations, of RunOptimizerTests and of main.
Return ==
  /\ mpc = "loop"
  /\ apc = "reported"
  /\ Exit(0)
  /\ UNCHANGED << shapeVars, planVars, execVars, genVars, aggVars >>
  /\ UNCHANGED << args, logLevel, connectErr, pos, tableCache, attempts >>

RunNext ==
  \/ ParseFlags
  \/ GetTestScenarios
  \/ Connect
  \/ RunScenario
  \/ SortResults
  \/ OutputResultsTable
  \/ Return

SpecRun == RunInit /\ [][RunNext]_vars

\* The results the attempts up to n returned, in the order of the attempts.
RECURSIVE Returned(_)
Returned(n) ==
  IF n = 0 THEN <<>> ELSE Returned(n - 1) \o attempts[n].returned

\* C14: the execution loop attempts every scenario of the list exactly once,
\* in list order; a scenario that returns an error adds no result and the
\* loop goes on, so that when the loop ends every scenario has been attempted
\* and the results are those of the scenarios that returned without error.
C14_EveryScenarioAttemptedOnce ==
  (mpc = "loop" /\ apc \in {"idle", "collected"}) =>
    /\ Len(attempts) = pos - 1
    /\ \A k \in 1 .. Len(attempts) :
         /\ attempts[k].pos = k
         /\ attempts[k].ID = scenarios[k].ID
         /\ attempts[k].err <=> attempts[k].returned = <<>>
    /\ results = Returned(Len(attempts))
    /\ apc = "collected" <=> Len(attempts) = Len(scenarios)

\* The loop has ended after a scenario whose setup failed, one whose query
\* failed and, later, one that returned a result.
C14_Witness ==
  /\ mpc = "loop"
  /\ apc = "collected"
  /\ \E i, j, k \in 1 .. Len(attempts) :
       /\ i < k
       /\ j < k
       /\ attempts[i].setup = "failed"
       /\ attempts[j].executed /\ attempts[j].err
       /\ ~attempts[k].err
  /\ Len(results) < Len(scenarios)

\* C15: when Connect fails, no scenario is attempted, no table is set up and
\* the process ends with an exit status other than 0.
C15_ConnectFailureIsFatal ==
  connectErr \in ConnectSteps =>
    /\ attempts = <<>>
    /\ tableCache = {}
    /\ results = <<>>
    /\ mpc = "exited"
    /\ exitStatus # 0

\* The flags the claim calls invalid.
InvalidArgs ==
  \/ args.rows \in InvalidRowsArgs
  \/ args.selectivity \in InvalidSelectivityArgs
  \/ args.repetitions <= 0
  \/ args.logLevel \notin {"debug", "info", "warn", "error"}

\* C16: with an invalid value for one of the four flags the process exits
\* with a status other than 0 before Connect is called.
C16_InvalidInputRejected ==
  (InvalidArgs /\ mpc # "start") =>
    /\ mpc = "exited"
    /\ exitStatus # 0
    /\ connectErr = "none"

\* C19: after the setup of a table has failed, no later scenario of that
\* table is executed and its setup is not called again.
C19_ShapingFailureEscalated ==
  \A i, j \in 1 .. Len(attempts) :
    (/\ i < j
     /\ attempts[i].setup = "failed"
     /\ attempts[j].TableName = attempts[i].TableName)
      => /\ ~attempts[j].executed
         /\ attempts[j].setup \notin {"ok", "failed"}

\* The calls of setupTableWithData for a table.
SetupCalls(name) ==
  {k \in 1 .. Len(attempts) :
     attempts[k].TableName = name /\ attempts[k].setup \in {"ok", "failed"}}

\* C20: in one run setupTableWithData is called at most once per table; a
\* table the cache holds stays in the cache, and is never set up again.
C20_SetupAtMostOncePerTable ==
  /\ \A k \in 1 .. Len(attempts) :
       Cardinality(SetupCalls(attempts[k].TableName)) <= 1
  /\ \A i, j \in 1 .. Len(attempts) :
       (/\ i < j
        /\ attempts[i].setup \in {"ok", "cached"}
        /\ attempts[j].TableName = attempts[i].TableName)
         => attempts[j].setup = "cached"
  /\ \A k \in 1 .. Len(attempts) :
       attempts[k].setup \in {"ok", "cached"}
         => attempts[k].TableName \in tableCache

\* The row count setupTableWithData was called with for the table the k-th
\* attempt ran on: that of the scenario whose attempt set the table up.
SetUpRowCounts(k) ==
  { scenarios[attempts[j].pos].RowCount :
      j \in { i \in 1 .. k : /\ attempts[i].TableName = attempts[k].TableName
                              /\ attempts[i].setup = "ok" } }

\* C29: whenever the query of an Index or TableScan scenario is executed, its
\* table has been set up (generated and shaped) for the scenario's own
\* RowCount, and so for the cardinality its query searches; also when several
\* row counts share one table-size label.
C29_TableSetUpForScenario ==
  \A k \in 1 .. Len(attempts) :
    LET scenario == scenarios[attempts[k].pos] IN
    (attempts[k].executed /\ ~scenario.ExplainOnly) =>
      SetUpRowCounts(k) = {scenario.RowCount}

\* ---------------------------------------------------------------------
\* The JSON client: convertActualToExecutionPlan (tidb.go).
\* ---------------------------------------------------------------------

\* What json.Unmarshal leaves in an interface{} field: a float64 (held in
\* tenths), a string, nil, or a value of another type.
JsonNumber(f) == [kind |-> "float64", num |-> f, str |-> <<>>]
JsonString(str) == [kind |-> "string", num |-> 0, str |-> str]
JsonNil == [kind |-> "nil", num |-> 0, str |-> <<>>]
JsonBool == [kind |-> "bool", num |-> 0, str |-> <<>>]

\* The strings of the model and, to state the claim, the number each one
\* denotes, in tenths: none for a string that is no numeral.
NumeralStrings ==
  << << "3" >>, << "2", ".", "5" >>, << "-", "4" >>, << "x" >>, <<>> >>
NumeralTenths == << << 30 >>, << 25 >>, << -40 >>, <<>>, <<>> >>

JsonValues ==
  << JsonNumber(15), JsonNumber(20), JsonNil, JsonBool >>
  \o [k \in 1 .. Len(NumeralStrings) |-> JsonString(NumeralStrings[k])]

\* The fields of a node: every field meets every value, and the fields of one
\* node differ.
FieldChoices ==
  {[Count |-> JsonValues[k],
    EstRows |-> JsonValues[(k % Len(JsonValues)) + 1],
    EstCost |-> JsonValues[((k + 1) % Len(JsonValues)) + 1],
    ActRows |-> JsonValues[((k + 2) % Len(JsonValues)) + 1]] :
     k \in 1 .. Len(JsonValues)}

RECURSIVE ActualForestsOfSize(_)
ActualPlansOfSize(n) ==
  {[ID |-> idTableReader, fields |-> f, Children |-> c] :
     f \in FieldChoices, c \in ActualForestsOfSize(n - 1)}
ActualForestsOfSize(m) ==
  IF m = 0 THEN {<<>>}
  ELSE UNION {{<< t >> \o f : t \in ActualPlansOfSize(k),
                              f \in ActualForestsOfSize(m - k)} :
              k \in 1 .. m}
\* A faulty variant of coerceInt64: a string is never parsed.
coerceInt64NumbersOnly(v) == IF v.kind = "float64" THEN Int64(v.num) ELSE 0

\* The switch over the type of an int64 field (Count, ActRows):
\* strconv.ParseInt for a string, int64(v) for a float64, else the zero
\* value the field starts with.
coerceInt64(v) ==
  IF v.kind = "string"
  THEN IF Atoi(v.str).ok THEN Atoi(v.str).val ELSE 0
  ELSE IF v.kind = "float64" THEN Int64(v.num)
  ELSE 0

\* The switch over the type of a float64 field (EstRows, EstCost), in tenths.
coerceFloat64(v) ==
  IF v.kind = "string"
  THEN IF ParseFloat(v.str).ok
       THEN (ParseFloat(v.str).num * Tenths) \div ParseFloat(v.str).den
       ELSE 0
  ELSE IF v.kind = "float64" THEN v.num
  ELSE 0

\* convertActualToExecutionPlan
RECURSIVE convertActualToExecutionPlan(_)
convertActualToExecutionPlan(actual) ==
  [ ID |-> actual.ID,
    Count |-> coerceInt64(actual.fields.Count),
    EstRows |-> coerceFloat64(actual.fields.EstRows),
    EstCost |-> coerceFloat64(actual.fields.EstCost),
    ActRows |-> coerceInt64(actual.fields.ActRows),
    Children |-> [k \in 1 .. Len(actual.Children) |->
                    convertActualToExecutionPlan(actual.Children[k])] ]

ConvertInit ==
  /\ ShapeIdle
  /\ ExecIdle
  /\ GenIdle
  /\ AggIdle
  /\ RunIdle
  /\ response = EmptyResponse
  /\ plan = <<>>
  /\ planErr = "none"
  /\ planType = ""
  /\ \E n \in 1 .. MaxNodes : tree \in {<< t >> : t \in ActualPlansOfSize(n)}
  /\ ppc = "start convert"

\* plan := c.convertActualToExecutionPlan(&actualPlans[0])
ConvertActual ==
  /\ ppc = "start convert"
  /\ plan' = << convertActualToExecutionPlan(tree[1]) >>
  /\ ppc' = "converted"
  /\ UNCHANGED << response, planErr, tree, planType >>
  /\ UNCHANGED << shapeVars, execVars, genVars, aggVars, runVars >>

ConvertNext == ConvertActual

SpecConvert == ConvertInit /\ [][ConvertNext]_vars

\* The number a JSON value stands for, in tenths: the number itself, the
\* number a numeral string denotes, and nothing otherwise.
Denoted(v) ==
  IF v.kind = "float64" THEN << v.num >>
  ELSE IF v.kind = "string"
  THEN NumeralTenths[CHOOSE k \in 1 .. Len(NumeralStrings) :
                       NumeralStrings[k] = v.str]
  ELSE <<>>

\* The value an integer field is to get: the whole number denoted (a number
\* with a fraction is cut to its whole part, a string with a fraction is no
\* integer numeral), else 0.
ExpectedInt(v) ==
  IF Denoted(v) = <<>> THEN 0
  ELSE IF v.kind = "string" /\ Denoted(v)[1] % Tenths # 0 THEN 0
  ELSE IF Denoted(v)[1] >= 0 THEN Denoted(v)[1] \div Tenths
  ELSE 0 - ((0 - Denoted(v)[1]) \div Tenths)
ExpectedFloat(v) == IF Denoted(v) = <<>> THEN 0 ELSE Denoted(v)[1]

RECURSIVE ConvertedAsClaimed(_, _)
ConvertedAsClaimed(actual, node) ==
  /\ node.Count = ExpectedInt(actual.fields.Count)
  /\ node.EstRows = ExpectedFloat(actual.fields.EstRows)
  /\ node.EstCost = ExpectedFloat(actual.fields.EstCost)
  /\ node.ActRows = ExpectedInt(actual.fields.ActRows)
  /\ Len(node.Children) = Len(actual.Children)
  /\ \A k \in 1 .. Len(actual.Children) :
       ConvertedAsClaimed(actual.Children[k], node.Children[k])

ExplainOnlyOf(l, id) ==
  {i \in 1 .. Len(l) : l[i].ScenarioID = id /\ l[i].ExplainOnly}
ExecutedTypes(l, id) ==
  {l[i].PlanType : i \in {k \in 1 .. Len(l) :
                            l[k].ScenarioID = id /\ ~l[k].ExplainOnly}}

Executed(l) == {i \in 1 .. Len(l) : ~l[i].ExplainOnly}
ExecutedOfType(l, pt) == {i \in Executed(l) : l[i].PlanType = pt}
ExecutedOfSize(l, pt, tableSize) ==
  {i \in ExecutedOfType(l, pt) : Contains(l[i].ScenarioID, tableSize)}

\* C30: the counts, the sums of the durations and the averages per plan type
\* of the compact summary table, and the number of tests, the average
\* duration, the counts per plan type and the denominator of the index/scan
\* percentages of the summary statistics, are those of the executed results;
\* ExplainOnly results enter none of them.
C30_SummariesOfExecutedOnly ==
  apc = "reported" =>
    /\ \A k \in DOMAIN report.compact :
         LET row == report.compact[k]
             index == ExecutedOfSize(results, "index_lookup", row.tableSize)
             scan == ExecutedOfSize(results, "table_scan", row.tableSize)
         IN  /\ row.indexCount = Cardinality(index)
             /\ row.scanCount = Cardinality(scan)
             /\ row.indexTime = SumTimes(results, index)
             /\ row.scanTime = SumTimes(results, scan)
             /\ row.avgIndexTime =
                  AvgDuration(SumTimes(results, index), Cardinality(index))
             /\ row.avgScanTime =
                  AvgDuration(SumTimes(results, scan), Cardinality(scan))
    /\ \A k \in DOMAIN report.summary :
         LET stats == report.summary[k]
             index == ExecutedOfType(results, "index_lookup")
             scan == ExecutedOfType(results, "table_scan")
         IN  /\ stats.totalTests = Cardinality(Executed(results))
             /\ stats.denominator = Cardinality(Executed(results))
             /\ stats.indexLookups = Cardinality(index)
             /\ stats.tableScans = Cardinality(scan)
             /\ stats.avgTime * Cardinality(Executed(results)) <=
                  SumTimes(results, Executed(results))
             /\ stats.avgIndexTime =
                  AvgDuration(SumTimes(results, index), Cardinality(index))
             /\ stats.avgTableScanTime =
                  AvgDuration(SumTimes(results, scan), Cardinality(scan))

====
